---- MODULE Spec2Model ----
(***************************************************************************)
(* pi-subagents execution engine: the chain orchestrator (executeChain),  *)
(* the bounded-concurrency scheduler (mapConcurrent) and the worker       *)
(* process runner (runSync).                                               *)
(*                                                                         *)
(* Texts are sequences of tokens.  A token is a string that the code      *)
(* treats as a unit: a placeholder ("{task}", "{previous}",               *)
(* "{chain_dir}"), a single character that String.prototype.replace       *)
(* interprets in a replacement string ("$", "&", "`", "'"), whitespace,   *)
(* or an opaque piece of text.                                             *)
(***************************************************************************)
EXTENDS Integers, Sequences, FiniteSets, TLC

VARIABLES
    \* ---- executeChain: parameters
    chain,            \* params.chain: the steps
    uiClarify,        \* clarify !== false && ctx.hasUI
    \* ---- executeChain: locals
    pc,               \* position of the async function
    stepIndex,        \* loop variable, 1-based here (the code is 0-based)
    templates,        \* resolved templates, per step
    results,          \* results: SingleResult[]
    prev,             \* previous output, what {previous} resolves to
    globalTaskIndex,
    progressCreated,
    chainDirExists,   \* the chain directory is on disk
    parallelDirs,     \* the parallel-{s}/{i}-{agent} directories on disk
    progressWrites,   \* the engine's own writes of progress.md: step, spawns before
    ret,              \* how executeChain settled
    \* ---- the mapConcurrent call of the current parallel step
    next,             \* next item to hand out, 1-based
    aborted,          \* fail-fast flag of the group
    parallelResults,  \* results by original index
    inflight,         \* indices whose callback awaits its worker process
    \* ---- observations
    spawned,          \* every worker process spawned, in spawn order
    returned,         \* every result a callback of this chain returned
    \* ---- mapConcurrent(items, limit, fn) on its own
    mcItems,          \* items
    mcLimit,          \* limit
    mcState,          \* the returned promise: idle, running, resolved, rejected
    mcNext,           \* next item to hand out, 1-based
    mcResults,        \* results by index
    mcInflight,       \* indices whose callback has started and not settled
    mcError,          \* what the promise rejected with
    mcProduced,       \* observation: what each callback resolved to
    mcThrown,         \* observation: what callbacks threw, in order
    \* ---- runSync(runtimeCwd, agents, agentName, task, options) on its own
    rsPhase,          \* idle, running (process spawned), closed, done
    rsCode,           \* what the promise around the process resolved to
    rsExitCode,       \* result.exitCode
    rsError,          \* result.error, <<>> when unset
    rsLastToolError,  \* lastToolError
    rsFinalOutputText,\* finalOutputText
    rsTurns,          \* result.usage.turns
    rsToolCount,      \* progress.toolCount
    rsCurrentTool,    \* progress.currentTool, "" when undefined
    rsRecentTools,    \* progress.recentTools, newest first
    rsRecentOutput,   \* progress.recentOutput, oldest first
    rsEvents,         \* observation: the lines the process wrote, in order
    rsExitedZero,     \* observation: the process exited with code 0
    rsHasSignal,      \* options.signal is given
    rsAborted,        \* signal.aborted
    rsListener,       \* the abort listener is registered
    rsKilled,         \* proc.killed
    rsKillTimer,      \* the 3000 ms timer of kill: none, armed, fired
    rsSignals,        \* observation: the signals delivered to the process, in order
    rsAliveAtExpiry,  \* observation: the process was alive when the timer fired
    \* ---- createJsonlWriter(filePath, source, deps) on its own
    jwStream,         \* stream: noop (no writer behind the calls), set, unset
    jwBackpressured,  \* backpressured
    jwClosed,         \* closed
    jwListeners,      \* drain listeners registered on the sink
    jwEndPending,     \* end was called and its callback has not run
    jwCalls,          \* observation: writeLine calls
    jwSinkWrites,     \* observation: write calls on the sink
    jwPauses,         \* observation: pause calls on the source
    jwResumes,        \* observation: resume calls on the source
    jwEnds,           \* observation: end calls on the sink
    jwCloseCalls,     \* observation: close calls
    jwDrains,         \* observation: drain signals of the sink
    jwDrainSincePause,\* observation: the sink signalled drain after the last pause
    jwAccepted,       \* observation: the non-blank lines passed to writeLine before close
    jwSinkLog,        \* observation: the texts passed to write on the sink, in order
    \* ---- pure functions of the settings, called on their own
    pfKind,           \* what the inputs are for: none, behavior, chain
    pfConfig,         \* agentConfig
    pfOverrides,      \* stepOverrides
    pfSteps,          \* steps
    pfDone,           \* the functions that have been called
    pfBehavior,       \* what resolveStepBehavior returned
    pfTemplates,      \* what resolveChainTemplatesV2 returned
    pfFlat,           \* what flattenSteps returned
    pfResults,        \* results: ParallelTaskResult[]
    pfAggregate,      \* what aggregateParallelOutputs returned
    \* ---- a background run of the runner
    arChain,          \* config.steps
    arPc,             \* accept, run, done
    arStatus,         \* status.json: exists, state, steps
    arStepIdx,        \* the chain step being run
    arNext,           \* the next task of the current group to start
    arLive,           \* flat indices of the live worker processes
    arFiles,          \* the capture files that exist
    arSpawned,        \* observation: flat indices of the workers started so far
    arWrites,         \* observation: <<flat index, file>> for every capture write
    \* ---- the stdout buffer of one worker
    sbStream,         \* the bytes the worker writes to stdout
    sbPos,            \* how many of them have been delivered
    sbBuf,            \* buf
    sbLines,          \* observation: the lines handed to processLine, in order
    sbClosed,         \* the close event has been handled
    sbCutInChar,      \* observation: a chunk ended inside a multi-byte character
    \* ---- the progress updates of one worker
    thListener,       \* onUpdate was given
    thNow,            \* Date.now()
    thLastUpdateTime, \* lastUpdateTime
    thUpdatePending,  \* updatePending
    thPendingTimer,   \* pendingTimer: the id of a timer, or NoTimer
    thTimers,         \* the timers of the event loop that are set: [id, due]
    thNextTimerId,    \* the id the next setTimeout returns
    thProcessClosed,  \* processClosed
    thToolCount,      \* progress.toolCount
    thCurrentTool,    \* progress.currentTool
    thChunks,         \* how many stdout chunks have arrived
    thLog,            \* observation: tool starts and onUpdate calls, in order
    thUnserved,       \* observation: an update was put off and none was sent since
    \* ---- what one worker run retains of its messages and of stderr
    rtRunner,         \* which runSync of the repository runs the worker
    rtMessages,       \* result.messages: the arrival numbers of the retained messages
    rtPushed,         \* observation: how many messages have been pushed
    rtStderr,         \* stderrBuf: it holds the characters from+1..to of stderr
    rtChunks,         \* how many stderr chunks have arrived
    \* ---- one runSync call up to and after its return
    seListener,       \* onUpdate is given
    seState,          \* what processLine works on: the result and the progress
    seExitCode,       \* result.exitCode
    seStatus,         \* progress.status
    seThrottle,       \* updatePending, pendingTimer, and the onUpdate calls so far
    seProcessClosed,  \* processClosed
    seResolved,       \* the handler that resolved the promise: none, close, error
    seCode,           \* the value the promise resolved to
    seReturned,       \* runSync has returned the result
    seFrozen,         \* observation: result, progress and onUpdate calls at the return
    seErrored,        \* observation: the error event has been emitted
    seChunks,         \* observation: how many stdout chunks have arrived
    \* ---- a chain of sequential steps run with a cancellation signal
    ccStep,           \* stepIndex + 1 of the step that runs or is next
    ccPhase,          \* ready (between two runSync calls), running, completed, failed
    ccAborted,        \* signal.aborted
    ccWorker,         \* the worker in flight: alive, and sent SIGTERM
    ccSpawned,        \* observation: the workers spawned, with signal.aborted at the spawn
    ccResults,        \* results, with the way each worker ended
    \* ---- the output paths of the tasks of parallel groups
    ppChain,          \* the groups of a chain, each a list of tasks with output overrides
    ppNext,           \* the group that is resolved next
    ppDirs,           \* the directories created so far
    ppBehaviors       \* per resolved group, the output of each task

chainVars == <<chain, uiClarify, pc, stepIndex, templates, results, prev,
               globalTaskIndex, progressCreated, chainDirExists, parallelDirs,
               progressWrites, ret, next, aborted, parallelResults, inflight,
               spawned, returned>>

mapVars == <<mcItems, mcLimit, mcState, mcNext, mcResults, mcInflight, mcError,
             mcProduced, mcThrown>>

runVars == <<rsPhase, rsCode, rsExitCode, rsError, rsLastToolError, rsFinalOutputText,
             rsTurns, rsEvents, rsExitedZero, rsHasSignal, rsAborted, rsListener,
             rsKilled, rsKillTimer, rsSignals, rsAliveAtExpiry, rsToolCount,
             rsCurrentTool, rsRecentTools, rsRecentOutput>>

progressVars == <<rsToolCount, rsCurrentTool, rsRecentTools, rsRecentOutput>>

killVars == <<rsHasSignal, rsAborted, rsListener, rsKilled, rsKillTimer, rsSignals,
              rsAliveAtExpiry>>

writerVars == <<jwStream, jwBackpressured, jwClosed, jwListeners, jwEndPending, jwCalls,
                jwSinkWrites, jwPauses, jwResumes, jwEnds, jwCloseCalls, jwDrains,
                jwDrainSincePause, jwAccepted, jwSinkLog>>

pureVars == <<pfKind, pfConfig, pfOverrides, pfSteps, pfDone, pfBehavior, pfTemplates,
              pfFlat, pfResults, pfAggregate>>

asyncVars == <<arChain, arPc, arStatus, arStepIdx, arNext, arLive, arFiles, arSpawned,
               arWrites>>

bufVars == <<sbStream, sbPos, sbBuf, sbLines, sbClosed, sbCutInChar>>

throttleVars == <<thListener, thNow, thLastUpdateTime, thUpdatePending, thPendingTimer, thTimers, thNextTimerId, thProcessClosed, thToolCount, thCurrentTool, thChunks, thLog, thUnserved>>

retainVars == <<rtRunner, rtMessages, rtPushed, rtStderr, rtChunks>>

settleVars == <<seListener, seState, seExitCode, seStatus, seThrottle, seProcessClosed, seResolved, seCode, seReturned, seFrozen, seErrored, seChunks>>

cancelVars == <<ccStep, ccPhase, ccAborted, ccWorker, ccSpawned, ccResults>>

pathsVars == <<ppChain, ppNext, ppDirs, ppBehaviors>>

vars == <<chainVars, mapVars, runVars, writerVars, pureVars, asyncVars, bufVars, throttleVars, retainVars, settleVars, cancelVars, pathsVars>>

nonChainVars == <<mapVars, runVars, writerVars, pureVars, asyncVars, bufVars, throttleVars, retainVars, settleVars, cancelVars, pathsVars>>

nonMapVars == <<chainVars, runVars, writerVars, pureVars, asyncVars, bufVars, throttleVars, retainVars, settleVars, cancelVars, pathsVars>>

nonRunVars == <<chainVars, mapVars, writerVars, pureVars, asyncVars, bufVars, throttleVars, retainVars, settleVars, cancelVars, pathsVars>>

nonWriterVars == <<chainVars, mapVars, runVars, pureVars, asyncVars, bufVars, throttleVars, retainVars, settleVars, cancelVars, pathsVars>>

nonPureVars == <<chainVars, mapVars, runVars, writerVars, asyncVars, bufVars, throttleVars, retainVars, settleVars, cancelVars, pathsVars>>

nonAsyncVars == <<chainVars, mapVars, runVars, writerVars, pureVars, bufVars, throttleVars, retainVars, settleVars, cancelVars, pathsVars>>

nonBufVars == <<chainVars, mapVars, runVars, writerVars, pureVars, asyncVars, throttleVars, retainVars, settleVars, cancelVars, pathsVars>>

nonThrottleVars == <<chainVars, mapVars, runVars, writerVars, pureVars, asyncVars, bufVars, retainVars, settleVars, cancelVars, pathsVars>>

nonRetainVars == <<chainVars, mapVars, runVars, writerVars, pureVars, asyncVars, bufVars, throttleVars, settleVars, cancelVars, pathsVars>>

nonSettleVars == <<chainVars, mapVars, runVars, writerVars, pureVars, asyncVars, bufVars, throttleVars, retainVars, cancelVars, pathsVars>>

nonCancelVars == <<chainVars, mapVars, runVars, writerVars, pureVars, asyncVars, bufVars, throttleVars, retainVars, settleVars, pathsVars>>

nonPathsVars == <<chainVars, mapVars, runVars, writerVars, pureVars, asyncVars, bufVars, throttleVars, retainVars, settleVars, cancelVars>>

-----------------------------------------------------------------------------
(* Bounds of the model *)

MaxSteps == 2      \* steps per chain
MaxPar == 3        \* tasks per parallel group
MaxLeaves == 3     \* leaf tasks per chain
MaxItems == 3      \* items given to mapConcurrent
MaxLimit == 3      \* limit given to mapConcurrent
MaxEvents == 3     \* lines a worker process writes
MaxRingEvents == 18 \* lines a worker process writes in a run observed for its rings
MaxWrites == 3     \* writeLine calls on a JSONL writer
MaxDrains == 2     \* drain signals of its sink
MaxCloses == 3     \* close calls on it
MaxChainLen == 3   \* steps of a chain given to the template and flattening functions
MaxGroupLen == 2   \* tasks of a parallel group in such a chain
MaxAsyncSteps == 2 \* steps of the chain of a background run
MaxAsyncPar == 2   \* tasks of a parallel group in a background run
MaxStreamChars == 4   \* characters a worker writes to stdout
MaxChunkBytes == 3   \* bytes of one stdout chunk
MaxTicks == 4   \* ticks of the clock in which chunks and the close arrive
TickMs == 25   \* milliseconds of one tick
MaxThrottleChunks == 2   \* stdout chunks of a throttled run
MaxChunkLines == 2   \* lines one stdout chunk completes
MaxProgressSteps == 2   \* steps of a chain of the progress-file runs
MaxSettleChunks == 2   \* stdout chunks of a run that is followed to its return
MaxCancelSteps == 6   \* steps of a chain run with a cancellation signal
MaxPathTasks == 2   \* tasks of a group whose output paths are resolved
MaxPushes == 201   \* messages pushed in one run
MaxStderrChunks == 3   \* stderr chunks of one run
StderrChunkChars == 100000   \* characters of a long stderr chunk

-----------------------------------------------------------------------------
(* Generic helpers *)

Min(a, b) == IF a < b THEN a ELSE b

Max(a, b) == IF a > b THEN a ELSE b

\* text contains sub as a contiguous piece
Contains(text, sub) ==
    \E k \in 0..(Len(text) - Len(sub)) : SubSeq(text, k + 1, k + Len(sub)) = sub

-----------------------------------------------------------------------------
(* Texts *)

Whitespace == {" ", "\n"}

RECURSIVE TrimStart(_)
TrimStart(t) ==
    IF t # <<>> /\ Head(t) \in Whitespace THEN TrimStart(Tail(t)) ELSE t

RECURSIVE TrimEnd(_)
TrimEnd(t) ==
    IF t # <<>> /\ t[Len(t)] \in Whitespace
    THEN TrimEnd(SubSeq(t, 1, Len(t) - 1)) ELSE t

Trim(t) == TrimEnd(TrimStart(t))

Includes(text, tok) == \E k \in 1..Len(text) : text[k] = tok

\* The replacement-string expansion of String.prototype.replace: "$$" is a
\* dollar, "$&" the match, "$`" the text before the match, "$'" the text
\* after it; any other "$" is literal (the patterns have no groups).
RECURSIVE GetSubstitution(_, _, _, _, _)
GetSubstitution(repl, k, matched, before, after) ==
    IF k > Len(repl) THEN <<>>
    ELSE IF repl[k] = "$" /\ k < Len(repl) /\ repl[k + 1] \in {"$", "&", "`", "'"}
    THEN (CASE repl[k + 1] = "$" -> <<"$">>
            [] repl[k + 1] = "&" -> matched
            [] repl[k + 1] = "`" -> before
            [] repl[k + 1] = "'" -> after)
         \o GetSubstitution(repl, k + 2, matched, before, after)
    ELSE <<repl[k]>> \o GetSubstitution(repl, k + 1, matched, before, after)

RECURSIVE ReplaceFrom(_, _, _, _)
ReplaceFrom(text, k, pat, repl) ==
    IF k > Len(text) THEN <<>>
    ELSE IF text[k] = pat
    THEN GetSubstitution(repl, 1, <<pat>>, SubSeq(text, 1, k - 1),
                         SubSeq(text, k + 1, Len(text)))
         \o ReplaceFrom(text, k + 1, pat, repl)
    ELSE <<text[k]>> \o ReplaceFrom(text, k + 1, pat, repl)

\* str.replace(/pat/g, repl)
ReplaceAll(text, pat, repl) == ReplaceFrom(text, 1, pat, repl)

-----------------------------------------------------------------------------
(* The agent registry (params.agents) and the chains given to executeChain *)

Agents == {"a", "b"}

UnknownName == "zz"

\* An agent's frontmatter defaults: "" is no output, <<>> no reads.
AgentConfig(name) ==
    IF name = "a"
    THEN [name |-> "a", hasOutput |-> TRUE, output |-> "a.md",
          hasReads |-> FALSE, defaultReads |-> <<>>,
          hasProgress |-> TRUE, defaultProgress |-> TRUE]
    ELSE [name |-> name, hasOutput |-> FALSE, output |-> "",
          hasReads |-> TRUE, defaultReads |-> <<"ctx.md">>,
          hasProgress |-> FALSE, defaultProgress |-> FALSE]

\* Variant: every name is taken for a registered agent
KnownAgentMut(name) == TRUE

\* agents.find((a) => a.name === name) found one
KnownAgent(name) == name \in Agents

ChainDir == "/tmp/pi-chain-runs/run1"

NoTask == <<>>

\* Step overrides that a step does not give (undefined in the code)
NoOverrides ==
    [hasOutput |-> FALSE, output |-> "", hasReads |-> FALSE, reads |-> <<>>,
     hasProgress |-> FALSE, progress |-> FALSE]

SequentialStep(agent, task) ==
    [kind |-> "sequential", agent |-> agent, task |-> task,
     parallel |-> <<>>, concurrency |-> 1, failFast |-> FALSE]

ParallelTaskItem(agent, task) == [agent |-> agent, task |-> task]

ParallelStep(items, concurrency, failFast) ==
    [kind |-> "parallel", agent |-> "", task |-> NoTask,
     parallel |-> items, concurrency |-> concurrency, failFast |-> failFast]

isParallelStep(step) == step.kind = "parallel"

getStepTaskCount(step) == IF isParallelStep(step) THEN Len(step.parallel) ELSE 1

getStepAgents(step) ==
    IF isParallelStep(step)
    THEN [j \in 1..Len(step.parallel) |-> step.parallel[j].agent]
    ELSE <<step.agent>>

\* The task of the first step seeds {task}
OriginalTask(steps) ==
    IF isParallelStep(steps[1]) THEN steps[1].parallel[1].task ELSE steps[1].task

\* Variant: a group task without an inline task defaults like a sequential step
resolveChainTemplatesMut(steps) ==
    [i \in 1..Len(steps) |->
        IF isParallelStep(steps[i])
        THEN [j \in 1..Len(steps[i].parallel) |->
                IF steps[i].parallel[j].task # NoTask
                THEN steps[i].parallel[j].task
                ELSE IF i = 1 THEN <<"{task}">> ELSE <<"{previous}">>]
        ELSE IF steps[i].task # NoTask THEN steps[i].task
        ELSE IF i = 1 THEN <<"{task}">> ELSE <<"{previous}">>]

\* Default for step 0: "{task}", for later steps and parallel tasks "{previous}"
resolveChainTemplates(steps) ==
    [i \in 1..Len(steps) |->
        IF isParallelStep(steps[i])
        THEN [j \in 1..Len(steps[i].parallel) |->
                IF steps[i].parallel[j].task # NoTask
                THEN steps[i].parallel[j].task ELSE <<"{previous}">>]
        ELSE IF steps[i].task # NoTask THEN steps[i].task
        ELSE IF i = 1 THEN <<"{task}">> ELSE <<"{previous}">>]

\* false, as the value of output and of reads
FalseOutput == ""

FalseReads == <<>>

\* Variant: an override that disables a field counts as no override
resolveStepBehaviorMut(config, ov) ==
    [output |-> IF ov.hasOutput /\ ov.output # FalseOutput THEN ov.output
                ELSE IF config.hasOutput THEN config.output ELSE FalseOutput,
     reads |-> IF ov.hasReads /\ ov.reads # FalseReads THEN ov.reads
               ELSE IF config.hasReads THEN config.defaultReads ELSE FalseReads,
     progress |-> IF ov.hasProgress /\ ov.progress THEN ov.progress
                  ELSE IF config.hasProgress THEN config.defaultProgress ELSE FALSE]

\* Priority: step override > agent frontmatter > disabled; a field of the
\* overrides or of the agent is undefined when its has-flag is FALSE
resolveStepBehavior(config, ov) ==
    [output |-> IF ov.hasOutput THEN ov.output
                ELSE IF config.hasOutput THEN config.output ELSE FalseOutput,
     reads |-> IF ov.hasReads THEN ov.reads
               ELSE IF config.hasReads THEN config.defaultReads ELSE FalseReads,
     progress |-> IF ov.hasProgress THEN ov.progress
                  ELSE IF config.hasProgress THEN config.defaultProgress ELSE FALSE]

AbsolutePaths == {"/abs/out.md"}

isAbsolute(p) == p \in AbsolutePaths

resolveChainPath(filePath, chainDir) ==
    IF isAbsolute(filePath) THEN filePath ELSE chainDir \o "/" \o filePath

RECURSIVE JoinStrings(_, _)
JoinStrings(strs, sep) ==
    IF strs = <<>> THEN ""
    ELSE IF Len(strs) = 1 THEN strs[1]
    ELSE strs[1] \o sep \o JoinStrings(Tail(strs), sep)

\* The instruction block appended to a task; previousSummary is <<>> when
\* the caller passes undefined.
buildChainInstructions(behavior, chainDir, isFirstProgressAgent, previousSummary) ==
    LET summary == IF Trim(previousSummary) # <<>>
                   THEN << <<"Previous step summary:\n\n">> \o Trim(previousSummary) >>
                   ELSE <<>>
        reads == IF Len(behavior.reads) > 0
                 THEN << <<"Read these files: " \o
                          JoinStrings([k \in 1..Len(behavior.reads) |->
                              resolveChainPath(behavior.reads[k], chainDir)], ", ")>> >>
                 ELSE <<>>
        output == IF behavior.output # ""
                  THEN << <<"Write your output to: " \o
                           resolveChainPath(behavior.output, chainDir)>> >>
                  ELSE <<>>
        progress == IF behavior.progress
                    THEN IF isFirstProgressAgent
                         THEN << <<"Create and maintain: " \o chainDir \o "/progress.md">>,
                                 <<"Format: Status, Tasks (checkboxes), Files Changed, Notes">> >>
                         ELSE << <<"Read and update: " \o chainDir \o "/progress.md">> >>
                    ELSE <<>>
        instructions == summary \o reads \o output \o progress
        Item(k) == (IF k = 1 THEN <<>> ELSE <<"\n">>) \o <<"- ">> \o instructions[k]
        RECURSIVE Lines(_)
        Lines(k) == IF k > Len(instructions) THEN <<>> ELSE Item(k) \o Lines(k + 1)
    IN  IF instructions = <<>> THEN <<>>
        ELSE <<"\n\n---\n**Chain Instructions:**\n">> \o Lines(1)

\* parallel-{stepIndex}/{taskIndex}-{agent}, both indices 0-based
ParallelSubdir(s, j, agent) ==
    "parallel-" \o ToString(s - 1) \o "/" \o ToString(j - 1) \o "-" \o agent

\* The first task of the group whose agent is not in the registry, or 0
FirstUnknownTask(tasks) ==
    IF \E j \in 1..Len(tasks) : ~KnownAgent(tasks[j].agent)
    THEN CHOOSE j \in 1..Len(tasks) :
            /\ ~KnownAgent(tasks[j].agent)
            /\ \A k \in 1..(j - 1) : KnownAgent(tasks[k].agent)
    ELSE 0

\* Behaviours of the tasks of a group that names known agents only; the
\* tasks of this model give no overrides, so agent defaults apply: the
\* default output is namespaced under the task's subdirectory.
resolveParallelBehaviors(tasks, s) ==
    [j \in 1..Len(tasks) |->
        LET config == AgentConfig(tasks[j].agent)
        IN  [output |-> IF config.output # ""
                        THEN ParallelSubdir(s, j, tasks[j].agent) \o "/" \o config.output
                        ELSE "",
             reads |-> config.defaultReads,
             progress |-> config.defaultProgress]]

createParallelDirs(s, agentNames) ==
    {ChainDir \o "/" \o ParallelSubdir(s, j, agentNames[j]) : j \in 1..Len(agentNames)}

\* "=== Parallel Task {i+1} ({agent}) ===\n{output}", joined by blank lines
aggregateParallelOutputs(taskResults) ==
    LET Section(i) ==
            <<"=== Parallel Task " \o ToString(i) \o " (" \o taskResults[i].agent
              \o ") ===", "\n">> \o taskResults[i].output
        RECURSIVE Join(_)
        Join(i) == IF i > Len(taskResults) THEN <<>>
                   ELSE (IF i = 1 THEN <<>> ELSE <<"\n", "\n">>) \o Section(i) \o Join(i + 1)
    IN  Join(1)

-----------------------------------------------------------------------------
(* Worker processes as executeChain sees them: what runSync resolves to *)

\* Final output texts a worker may produce (getFinalOutput of its messages)
Outputs == { <<"ok">>, <<"$", "$">> }

\* How a worker process may end: exit code, final output, error text
Outcomes ==
    {[exitCode |-> 0, output |-> o, error |-> ""] : o \in Outputs}
    \cup {[exitCode |-> 1, output |-> <<>>, error |-> "boom"],
          [exitCode |-> 1, output |-> <<"partial">>, error |-> ""]}

\* The SingleResult of a task whose process ended as outcome
SingleResult(agent, task, outcome) ==
    [agent |-> agent, task |-> task, exitCode |-> outcome.exitCode,
     output |-> outcome.output, error |-> outcome.error]

\* The placeholder a fail-fast group returns for a task it does not start
SkippedResult(agent) ==
    [agent |-> agent, task |-> <<"(skipped)">>, exitCode |-> -1,
     output |-> <<>>, error |-> "Skipped due to fail-fast"]

\* An empty slot of new Array(items.length)
NoResult ==
    [agent |-> "", task |-> <<>>, exitCode |-> 0, output |-> <<>>, error |-> ""]

SpawnRecord(s, j, agent, task, index) ==
    [step |-> s, task |-> j, agent |-> agent, text |-> task, index |-> index]

Pending ==
    [kind |-> "pending", isError |-> FALSE, text |-> <<>>, results |-> <<>>,
     currentStepIndex |-> -1]

\* { content: [{ text }], isError, details: { results, currentStepIndex } };
\* currentStepIndex is -1 where the code leaves it out.  Of the summary that
\* buildChainSummary formats, text keeps the error it is given.
Returned(text, isError, res, idx) ==
    [kind |-> "returned", isError |-> isError, text |-> text, results |-> res,
     currentStepIndex |-> idx]

\* executeChain rejected with new Error(message)
Thrown(message) ==
    [kind |-> "thrown", isError |-> TRUE, text |-> message, results |-> <<>>,
     currentStepIndex |-> -1]

-----------------------------------------------------------------------------
(* The chains of the model *)

InlineTask == <<"Analyze", " ", "{task}">>

GroupTask == <<"Review", " ", "{task}">>

SequentialChoices(first) ==
    {SequentialStep(ag, t) :
        ag \in {"a", UnknownName},
        t \in IF first THEN {InlineTask} ELSE {NoTask, InlineTask}}

\* A group of n tasks by agents a, b, a, ...; the first task has an inline
\* task, the others the default; with unknown set the last agent is not
\* in the registry.
GroupItems(n, unknown) ==
    [j \in 1..n |->
        ParallelTaskItem(
            IF unknown /\ j = n THEN UnknownName
            ELSE IF j % 2 = 1 THEN "a" ELSE "b",
            IF j = 1 THEN GroupTask ELSE NoTask)]

ParallelChoices(first) ==
    {ParallelStep(GroupItems(n, u), k, ff) :
        n \in (IF first THEN 1 ELSE 0)..MaxPar, u \in BOOLEAN,
        k \in 1..MaxPar, ff \in BOOLEAN}

\* A concurrency above the number of tasks behaves as that number
StepChoices(first) ==
    SequentialChoices(first)
    \cup {st \in ParallelChoices(first) : st.concurrency <= Max(1, Len(st.parallel))}

\* The chains of at most stepsLeft steps and leavesLeft leaf tasks
RECURSIVE ChainsFrom(_, _, _)
ChainsFrom(first, stepsLeft, leavesLeft) ==
    {<<>>} \cup
    (IF stepsLeft = 0 THEN {}
     ELSE UNION {{<<st>> \o rest :
                    rest \in ChainsFrom(FALSE, stepsLeft - 1,
                                        leavesLeft - getStepTaskCount(st))} :
                 st \in {x \in StepChoices(first) : getStepTaskCount(x) <= leavesLeft}})

\* A chain has at least one step, and its first step gives the task
Chains == ChainsFrom(TRUE, MaxSteps, MaxLeaves) \ {<<>>}

\* Steps that differ in who needs progress.md: agent a tracks progress,
\* agent b does not; every task gives its template
ProgressSteps ==
    {SequentialStep(ag, InlineTask) : ag \in Agents}
    \cup {ParallelStep([j \in 1..Len(ags) |-> ParallelTaskItem(ags[j], GroupTask)],
                       Len(ags), FALSE) :
             ags \in {<<"b">>, <<"b", "a">>, <<"a", "a">>}}

RECURSIVE ProgressChainsUpTo(_)
ProgressChainsUpTo(n) ==
    IF n = 0 THEN {<<>>}
    ELSE LET shorter == ProgressChainsUpTo(n - 1)
         IN  shorter \cup {Append(c, st) : c \in shorter, st \in ProgressSteps}

ProgressChains == ProgressChainsUpTo(MaxProgressSteps) \ {<<>>}

-----------------------------------------------------------------------------
(* executeChain *)

InitChain ==
    /\ chain \in Chains
    \* the flag is read only for a chain without parallel steps
    /\ uiClarify \in IF \E i \in 1..Len(chain) : isParallelStep(chain[i])
                     THEN {FALSE} ELSE BOOLEAN
    /\ pc = "start"
    /\ stepIndex = 1
    /\ templates = <<>>
    /\ results = <<>>
    /\ prev = <<>>
    /\ globalTaskIndex = 0
    /\ progressCreated = FALSE
    /\ chainDirExists = FALSE
    /\ parallelDirs = {}
    /\ progressWrites = <<>>
    /\ ret = Pending
    /\ next = 1
    /\ aborted = FALSE
    /\ parallelResults = <<>>
    /\ inflight = {}
    /\ spawned = <<>>
    /\ returned = {}

\* executeChain is entered with one of the progress chains
InitProgressChain ==
    /\ chain \in ProgressChains
    /\ uiClarify \in IF \E i \in 1..Len(chain) : isParallelStep(chain[i])
                     THEN {FALSE} ELSE BOOLEAN
    /\ pc = "start"
    /\ stepIndex = 1
    /\ templates = <<>>
    /\ results = <<>>
    /\ prev = <<>>
    /\ globalTaskIndex = 0
    /\ progressCreated = FALSE
    /\ chainDirExists = FALSE
    /\ parallelDirs = {}
    /\ progressWrites = <<>>
    /\ ret = Pending
    /\ next = 1
    /\ aborted = FALSE
    /\ parallelResults = <<>>
    /\ inflight = {}
    /\ spawned = <<>>
    /\ returned = {}

hasParallelSteps == \E i \in 1..Len(chain) : isParallelStep(chain[i])

\* The clarify UI is shown for sequential-only chains
shouldClarify == uiClarify /\ ~hasParallelSteps

originalTask == OriginalTask(chain)

\* The first sequential step whose agent is not in the registry, or 0
FirstUnknownSequential ==
    IF \E i \in 1..Len(chain) : ~KnownAgent(chain[i].agent)
    THEN CHOOSE i \in 1..Len(chain) :
            /\ ~KnownAgent(chain[i].agent)
            /\ \A k \in 1..(i - 1) : KnownAgent(chain[k].agent)
    ELSE 0

\* A text is given line by line, each line a sequence of tokens
UnknownAgentText(name) == << <<"Unknown agent: ", name>> >>

\* Template with {task}, {previous} and {chain_dir} replaced, in this order
SubstituteVariables(template, previous) ==
    ReplaceAll(ReplaceAll(ReplaceAll(template, "{task}", originalTask),
                          "{previous}", previous),
               "{chain_dir}", <<ChainDir>>)

\* The summary argument of buildChainInstructions: only when the template
\* does not itself hold {previous}
PreviousSummary(template, previous) ==
    IF Includes(template, "{previous}") THEN <<>> ELSE previous

\* From entry to the first await (the clarify UI) or to the step loop
Start ==
    /\ pc = "start"
    /\ templates' = resolveChainTemplates(chain)
    /\ IF shouldClarify /\ FirstUnknownSequential # 0
       THEN /\ chainDirExists' = FALSE
            /\ ret' = Returned(UnknownAgentText(chain[FirstUnknownSequential].agent),
                               TRUE, <<>>, -1)
            /\ pc' = "done"
       ELSE /\ chainDirExists' = TRUE
            /\ ret' = ret
            /\ pc' = IF shouldClarify THEN "clarify" ELSE "loop"
    /\ UNCHANGED <<nonChainVars, chain, uiClarify, stepIndex, results, prev, globalTaskIndex,
                   progressCreated, parallelDirs, progressWrites, next, aborted,
                   parallelResults, inflight, spawned, returned>>

\* The clarify UI closed; the model's UI edits neither templates nor behaviours
ClarifyClosed(confirmed) ==
    /\ pc = "clarify"
    /\ IF confirmed
       THEN /\ pc' = "loop"
            /\ UNCHANGED <<chainDirExists, ret>>
       ELSE /\ chainDirExists' = FALSE
            /\ ret' = Returned(<< <<"Chain cancelled">> >>, FALSE, <<>>, -1)
            /\ pc' = "done"
    /\ UNCHANGED <<nonChainVars, chain, uiClarify, stepIndex, templates, results, prev,
                   globalTaskIndex, progressCreated, parallelDirs, progressWrites,
                   next, aborted, parallelResults, inflight, spawned, returned>>

\* The loop ran out of steps: the chain completed
ChainComplete ==
    /\ pc = "loop"
    /\ stepIndex > Len(chain)
    /\ ret' = Returned(<< <<"completed">> >>, FALSE, results, -1)
    /\ pc' = "done"
    /\ UNCHANGED <<nonChainVars, chain, uiClarify, stepIndex, templates, results, prev,
                   globalTaskIndex, progressCreated, chainDirExists, parallelDirs,
                   progressWrites, next, aborted, parallelResults, inflight,
                   spawned, returned>>

\* The task text of sequential step s
SequentialTask(s, isFirstProgress) ==
    SubstituteVariables(templates[s], prev)
    \o buildChainInstructions(
          resolveStepBehavior(AgentConfig(chain[s].agent), NoOverrides),
          ChainDir, isFirstProgress, PreviousSummary(templates[s], prev))

\* Variant: every step with progress enabled is told to create the file
IsFirstProgressMut(behavior, created) == behavior.progress

\* const isFirstProgress = behavior.progress && !progressCreated
IsFirstProgress(behavior, created) == behavior.progress /\ ~created

\* A sequential step up to the await of runSync, which spawns the worker
SequentialBegin ==
    /\ pc = "loop"
    /\ stepIndex <= Len(chain)
    /\ ~isParallelStep(chain[stepIndex])
    /\ IF ~KnownAgent(chain[stepIndex].agent)
       THEN /\ chainDirExists' = FALSE
            /\ parallelDirs' = {}
            /\ ret' = Returned(UnknownAgentText(chain[stepIndex].agent), TRUE, <<>>, -1)
            /\ pc' = "done"
            /\ UNCHANGED <<progressCreated, spawned>>
       ELSE LET behavior == resolveStepBehavior(AgentConfig(chain[stepIndex].agent),
                                                NoOverrides)
                isFirstProgress == IsFirstProgress(behavior, progressCreated)
            IN  /\ progressCreated' = (progressCreated \/ isFirstProgress)
                /\ spawned' = Append(spawned,
                        SpawnRecord(stepIndex, 0, chain[stepIndex].agent,
                                    SequentialTask(stepIndex, isFirstProgress),
                                    globalTaskIndex))
                /\ pc' = "seq"
                /\ UNCHANGED <<chainDirExists, parallelDirs, ret>>
    /\ UNCHANGED <<nonChainVars, chain, uiClarify, stepIndex, templates, results, prev,
                   globalTaskIndex, progressWrites, next, aborted, parallelResults,
                   inflight, returned>>

\* Variant: a step fails only when its result carries an error text
SequentialFailedMut(r) == r.exitCode # 0 /\ r.error # ""

\* r.exitCode !== 0 after a sequential step
SequentialFailed(r) == r.exitCode # 0

\* runSync resolved for the sequential step
SequentialFinish(outcome) ==
    /\ pc = "seq"
    /\ LET sp == spawned[Len(spawned)]
           r == SingleResult(sp.agent, sp.text, outcome)
       IN  /\ globalTaskIndex' = globalTaskIndex + 1
           /\ results' = Append(results, r)
           /\ returned' = returned \cup {[step |-> stepIndex, task |-> 0, r |-> r]}
           /\ IF SequentialFailed(r)
              THEN /\ ret' = Returned(
                         << <<IF r.error # "" THEN r.error ELSE "Chain failed">> >>,
                         TRUE, results', stepIndex - 1)
                   /\ pc' = "done"
                   /\ UNCHANGED <<prev, stepIndex>>
              ELSE /\ prev' = r.output
                   /\ stepIndex' = stepIndex + 1
                   /\ pc' = "loop"
                   /\ ret' = ret
    /\ UNCHANGED <<nonChainVars, chain, uiClarify, templates, progressCreated, chainDirExists,
                   parallelDirs, progressWrites, next, aborted, parallelResults,
                   inflight, spawned>>

-----------------------------------------------------------------------------
(* A parallel step: the callback given to mapConcurrent, and the join *)

\* Variant: one worker per item
WorkerCountMut(n, limit) == n

\* mapConcurrent starts min(limit, items.length) workers; each takes the
\* next item in array order until none is left
WorkerCount(n, limit) == Min(limit, n)

\* The task text of task j of parallel step s
ParallelTask(s, j) ==
    LET template == templates[s][j]
        behavior == resolveParallelBehaviors(chain[s].parallel, s)[j]
    IN  SubstituteVariables(template, prev)
        \o buildChainInstructions(behavior, ChainDir, FALSE,
                                  PreviousSummary(template, prev))

\* Variant: every task of a group is run with the index of its first task
ParallelSpawnMut(s, j) ==
    SpawnRecord(s, j, chain[s].parallel[j].agent, ParallelTask(s, j), globalTaskIndex)

ParallelSpawn(s, j) ==
    SpawnRecord(s, j, chain[s].parallel[j].agent, ParallelTask(s, j),
                globalTaskIndex + j - 1)

\* Variant: no task is skipped
SkipsTaskMut(isAborted, failFast) == FALSE

\* if (aborted && failFast): the callback returns the placeholder
SkipsTask(isAborted, failFast) == isAborted /\ failFast

\* Variant: any result of a fail-fast group aborts it
SetsAbortedMut(r, failFast) == failFast

\* if (r.exitCode !== 0 && failFast) aborted = true
SetsAborted(r, failFast) == r.exitCode # 0 /\ failFast

\* Variant: skipped tasks count as failures
RealFailureMut(r) == r.exitCode # 0

\* A failure of the group: exit code neither 0 nor the skip marker
RealFailure(r) == r.exitCode # 0 /\ r.exitCode # -1

\* "- Task {originalIndex + 1} ({agent}): {error || 'failed'}"
FailureLine(i, r) ==
    <<"- ", "Task " \o ToString(i) \o " (" \o r.agent \o ")", ": ",
      IF r.error # "" THEN r.error ELSE "failed">>

\* The failures of a group, in original task order
RECURSIVE FailureSummary(_, _)
FailureSummary(res, i) ==
    IF i > Len(res) THEN <<>>
    ELSE (IF RealFailure(res[i]) THEN <<FailureLine(i, res[i])>> ELSE <<>>)
         \o FailureSummary(res, i + 1)

\* Variant: the engine writes the file for every group that needs progress
WritesProgressFileMut(anyNeedsProgress, created) == anyNeedsProgress

\* if (anyNeedsProgress && !progressCreated)
WritesProgressFile(anyNeedsProgress, created) == anyNeedsProgress /\ ~created

\* A parallel step up to the await of mapConcurrent: directories, behaviours,
\* the progress file, and the first callbacks, each of which spawns its worker
ParallelBegin ==
    /\ pc = "loop"
    /\ stepIndex <= Len(chain)
    /\ isParallelStep(chain[stepIndex])
    /\ LET step == chain[stepIndex]
           n == Len(step.parallel)
           bad == FirstUnknownTask(step.parallel)
           started == WorkerCount(n, step.concurrency)
       IN  /\ parallelDirs' = parallelDirs
                  \cup createParallelDirs(stepIndex, getStepAgents(step))
           /\ IF bad # 0
              THEN /\ ret' = Thrown(UnknownAgentText(step.parallel[bad].agent))
                   /\ pc' = "done"
                   /\ UNCHANGED <<progressCreated, progressWrites, next, aborted,
                                  parallelResults, inflight, spawned>>
              ELSE LET anyNeedsProgress ==
                           \E j \in 1..n :
                               resolveParallelBehaviors(step.parallel, stepIndex)[j].progress
                   IN  /\ progressWrites' =
                              IF WritesProgressFile(anyNeedsProgress, progressCreated)
                              THEN Append(progressWrites,
                                          [step |-> stepIndex,
                                           spawnsBefore |-> Len(spawned)])
                              ELSE progressWrites
                       /\ progressCreated' = (progressCreated \/ anyNeedsProgress)
                       /\ aborted' = FALSE
                       /\ parallelResults' = [j \in 1..n |-> NoResult]
                       /\ next' = started + 1
                       /\ inflight' = 1..started
                       /\ spawned' = spawned
                              \o [j \in 1..started |-> ParallelSpawn(stepIndex, j)]
                       /\ pc' = "par"
                       /\ ret' = ret
    /\ UNCHANGED <<nonChainVars, chain, uiClarify, stepIndex, templates, results, prev,
                   globalTaskIndex, chainDirExists, returned>>

\* The worker of task i exited: its callback returns r, and its mapConcurrent
\* worker goes on to the next items, up to the next callback that awaits a
\* worker process of its own
ParallelTaskFinish(i, outcome) ==
    /\ pc = "par"
    /\ i \in inflight
    /\ LET step == chain[stepIndex]
           n == Len(step.parallel)
           r == SingleResult(step.parallel[i].agent, ParallelTask(stepIndex, i), outcome)
           nowAborted == aborted \/ SetsAborted(r, step.failFast)
           skipped == IF SkipsTask(nowAborted, step.failFast) THEN next..n ELSE {}
           starts == IF skipped = {} /\ next <= n THEN {next} ELSE {}
       IN  /\ aborted' = nowAborted
           /\ parallelResults' =
                  [j \in 1..n |->
                      IF j = i THEN r
                      ELSE IF j \in skipped THEN SkippedResult(step.parallel[j].agent)
                      ELSE parallelResults[j]]
           /\ returned' = returned
                  \cup {[step |-> stepIndex, task |-> i, r |-> r]}
                  \cup {[step |-> stepIndex, task |-> j,
                         r |-> SkippedResult(step.parallel[j].agent)] : j \in skipped}
           /\ next' = IF skipped # {} THEN n + 1
                      ELSE IF starts # {} THEN next + 1 ELSE next
           /\ inflight' = (inflight \ {i}) \cup starts
           /\ spawned' = IF starts # {}
                         THEN Append(spawned, ParallelSpawn(stepIndex, next))
                         ELSE spawned
    /\ UNCHANGED <<nonChainVars, chain, uiClarify, pc, stepIndex, templates, results, prev,
                   globalTaskIndex, progressCreated, chainDirExists, parallelDirs,
                   progressWrites, ret>>

\* Variant: the await ends while one callback is still waiting for its worker
AllSettledMut(waiting) == Cardinality(waiting) <= 1

\* await mapConcurrent(...): resolved once no callback is waiting any more
AllSettled(waiting) == waiting = {}

\* mapConcurrent resolved: collect, fail on a real failure, else aggregate
ParallelJoin ==
    /\ pc = "par"
    /\ AllSettled(inflight)
    /\ LET failureSummary == FailureSummary(parallelResults, 1)
       IN  /\ globalTaskIndex' = globalTaskIndex + Len(chain[stepIndex].parallel)
           /\ results' = results \o parallelResults
           /\ IF failureSummary # <<>>
              THEN /\ ret' = Returned(
                         << <<"Parallel step " \o ToString(stepIndex) \o " failed:">> >>
                         \o failureSummary,
                         TRUE, results', stepIndex - 1)
                   /\ pc' = "done"
                   /\ UNCHANGED <<prev, stepIndex>>
              ELSE /\ prev' = aggregateParallelOutputs(parallelResults)
                   /\ stepIndex' = stepIndex + 1
                   /\ pc' = "loop"
                   /\ ret' = ret
    /\ UNCHANGED <<nonChainVars, chain, uiClarify, templates, progressCreated, chainDirExists,
                   parallelDirs, progressWrites, next, aborted, parallelResults,
                   inflight, spawned, returned>>

NextChain ==
    \/ Start
    \/ \E confirmed \in BOOLEAN : ClarifyClosed(confirmed)
    \/ ChainComplete
    \/ SequentialBegin
    \/ \E outcome \in Outcomes : SequentialFinish(outcome)
    \/ ParallelBegin
    \/ \E i \in 1..MaxPar, outcome \in Outcomes : ParallelTaskFinish(i, outcome)
    \/ ParallelJoin

-----------------------------------------------------------------------------
(* What the observations say, independently of executeChain's own books *)

\* The result the callback of task j of step s returned (j = 0: the
\* sequential step itself)
HasReturned(s, j) == \E x \in returned : x.step = s /\ x.task = j

ReturnedResult(s, j) == (CHOOSE x \in returned : x.step = s /\ x.task = j).r

StepReturned(s) ==
    IF isParallelStep(chain[s])
    THEN \A j \in 1..Len(chain[s].parallel) : HasReturned(s, j)
    ELSE HasReturned(s, 0)

StepResults(s) ==
    IF isParallelStep(chain[s])
    THEN [j \in 1..Len(chain[s].parallel) |-> ReturnedResult(s, j)]
    ELSE <<ReturnedResult(s, 0)>>

RECURSIVE ResultsUpTo(_)
ResultsUpTo(k) == IF k = 0 THEN <<>> ELSE ResultsUpTo(k - 1) \o StepResults(k)

WasSpawned(s, j) == \E k \in 1..Len(spawned) : spawned[k].step = s /\ spawned[k].task = j

NoSpawnAfter(s) == \A k \in 1..Len(spawned) : spawned[k].step <= s

-----------------------------------------------------------------------------
(* C1 *)

\* C1: when a sequential step ends with a non-zero exit code, executeChain
\* has returned an error result, no worker process is spawned for a later
\* step, details.results holds exactly the results of the steps up to and
\* including the failing one, and the chain directory is still on disk.
C1_SequentialFailureHalts ==
    \A s \in 1..Len(chain) :
        (~isParallelStep(chain[s]) /\ HasReturned(s, 0)
            /\ ReturnedResult(s, 0).exitCode # 0)
        => /\ pc = "done"
           /\ ret.kind = "returned"
           /\ ret.isError
           /\ NoSpawnAfter(s)
           /\ ret.results = ResultsUpTo(s)
           /\ chainDirExists

\* A step failed with a step still to go
C1_Witness ==
    \E s \in 1..Len(chain) :
        /\ ~isParallelStep(chain[s])
        /\ HasReturned(s, 0)
        /\ ReturnedResult(s, 0).exitCode # 0
        /\ s < Len(chain)
        /\ pc = "done"

-----------------------------------------------------------------------------
(* C2 *)

\* C2: for every sequential step after the first that uses the default
\* template, the task text handed to its worker contains, verbatim, the
\* final output of the immediately preceding (sequential) step, whatever
\* that output is.
C2_PreviousOutputVerbatim ==
    \A k \in 1..Len(spawned) :
        LET sp == spawned[k]
        IN  (/\ sp.task = 0
             /\ sp.step > 1
             /\ chain[sp.step].task = NoTask
             /\ ~isParallelStep(chain[sp.step - 1]))
            => Contains(sp.text, ReturnedResult(sp.step - 1, 0).output)

-----------------------------------------------------------------------------
(* C3 *)

GroupJoined(s) ==
    /\ isParallelStep(chain[s])
    /\ StepReturned(s)
    /\ (stepIndex > s \/ pc = "done")

GroupFailed(s) ==
    \E j \in 1..Len(chain[s].parallel) :
        ReturnedResult(s, j).exitCode \notin {0, -1}

\* The tasks a failure text names, in the order of its lines
NamedTasks(text) == [k \in 1..(Len(text) - 1) |-> text[k + 1][2]]

TaskLabel(s, j) ==
    "Task " \o ToString(j) \o " (" \o chain[s].parallel[j].agent \o ")"

\* The labels of the tasks of group s that really failed, by original index
RECURSIVE FailedLabels(_, _)
FailedLabels(s, j) ==
    IF j = 0 THEN <<>>
    ELSE FailedLabels(s, j - 1)
         \o (IF ReturnedResult(s, j).exitCode \notin {0, -1}
             THEN <<TaskLabel(s, j)>> ELSE <<>>)

\* C3: after a parallel group finished with a task whose exit code is neither
\* 0 nor -1, executeChain has returned an error result for the group's step
\* index, no later step runs, and the failure text names exactly the really
\* failed tasks (no skipped one) as "Task {i+1} ({agent})" by original index.
C3_ParallelFailureReport ==
    \A s \in 1..Len(chain) :
        (GroupJoined(s) /\ GroupFailed(s))
        => /\ pc = "done"
           /\ ret.kind = "returned"
           /\ ret.isError
           /\ ret.currentStepIndex = s - 1
           /\ NoSpawnAfter(s)
           /\ NamedTasks(ret.text) = FailedLabels(s, Len(chain[s].parallel))

\* A fail-fast group in which a later task failed and finished first, another
\* was skipped, and a step was still to come
C3_Witness ==
    \E s \in 1..Len(chain) :
        /\ GroupJoined(s) /\ GroupFailed(s)
        /\ s < Len(chain)
        /\ \E j \in 1..Len(chain[s].parallel) : ReturnedResult(s, j).exitCode = -1
        /\ ReturnedResult(s, 1).exitCode = 0
        /\ ReturnedResult(s, 2).exitCode = 1

-----------------------------------------------------------------------------
(* C4 *)

\* The sections of group s from task j on, from what the callbacks returned
RECURSIVE ExpectedSections(_, _)
ExpectedSections(s, j) ==
    IF j > Len(chain[s].parallel) THEN <<>>
    ELSE <<"=== Parallel Task " \o ToString(j) \o " ("
           \o chain[s].parallel[j].agent \o ") ===", "\n">>
         \o ReturnedResult(s, j).output
         \o (IF j < Len(chain[s].parallel) THEN <<"\n", "\n">> ELSE <<>>)
         \o ExpectedSections(s, j + 1)

\* C4: after a parallel group in which no task really failed, the text that
\* {previous} stands for in the next step is the concatenation, in original
\* task order, of each task's output under "=== Parallel Task {i+1} ({agent}) ===".
C4_AggregatedPrevious ==
    \A s \in 1..Len(chain) :
        (GroupJoined(s) /\ ~GroupFailed(s) /\ stepIndex = s + 1)
        => prev = ExpectedSections(s, 1)

\* Two tasks with different outputs, the second finished first, and the
\* next step has started with the aggregate
C4_Witness ==
    \E s \in 1..Len(chain) :
        /\ GroupJoined(s) /\ ~GroupFailed(s) /\ stepIndex = s + 1
        /\ Len(chain[s].parallel) >= 2
        /\ ReturnedResult(s, 1).output # ReturnedResult(s, 2).output
        /\ WasSpawned(s + 1, 0)

\* The template of a spawned worker's task
TemplateOf(sp) ==
    IF sp.task = 0 THEN templates[sp.step] ELSE templates[sp.step][sp.task]

\* C4, in the task the next step's worker is given: where its template holds
\* {previous}, the task text contains the concatenation, in original task
\* order, of each task's final output under its header.
C4_PreviousResolvesToAggregate ==
    \A k \in 1..Len(spawned) :
        LET sp == spawned[k]
        IN  (/\ sp.step > 1
             /\ isParallelStep(chain[sp.step - 1])
             /\ Includes(TemplateOf(sp), "{previous}"))
            => Contains(sp.text, ExpectedSections(sp.step - 1, 1))

-----------------------------------------------------------------------------
(* C7 *)

\* A task of the running fail-fast group has returned a non-zero exit code
FailFastTripped ==
    /\ pc = "par"
    /\ chain[stepIndex].failFast
    /\ \E x \in returned :
          x.step = stepIndex /\ x.task # 0 /\ x.r.exitCode \notin {0, -1}

\* C7: in a fail-fast group, once a task has returned a non-zero exit code,
\* no further worker process is spawned; every task whose callback had not
\* started has the skipped result (exit code -1) and no worker process,
\* while the tasks in flight run on and end with their real results.
C7_FailFastSkipsUnstarted ==
    [][FailFastTripped =>
         /\ spawned' = spawned
         /\ \A j \in 1..Len(chain[stepIndex].parallel) :
               /\ ~WasSpawned(stepIndex, j)
                    => parallelResults[j] = SkippedResult(chain[stepIndex].parallel[j].agent)
               /\ WasSpawned(stepIndex, j)
                    => \/ j \in inflight
                       \/ /\ parallelResults[j].exitCode # -1
                          /\ parallelResults[j] = ReturnedResult(stepIndex, j)
               /\ (j \in inflight /\ j \notin inflight')
                    => /\ parallelResults'[j].exitCode # -1
                       /\ parallelResults'[j].task # <<"(skipped)">>
      ]_vars

\* Of three tasks run two at a time, the second failed while the first was
\* in flight: the third was skipped without a worker, the first ended well
C7_Witness ==
    /\ pc = "par"
    /\ chain[stepIndex].failFast
    /\ Len(chain[stepIndex].parallel) = 3
    /\ inflight = {}
    /\ parallelResults[1].exitCode = 0
    /\ parallelResults[2].exitCode = 1
    /\ parallelResults[3].exitCode = -1
    /\ ~WasSpawned(stepIndex, 3)
    /\ WasSpawned(stepIndex, 1)

-----------------------------------------------------------------------------
(* C10 *)

UnknownAgentReported ==
    /\ pc = "done"
    /\ ret.text[1][1] = "Unknown agent: "

StepNamesUnknown(s) ==
    \E j \in 1..Len(getStepAgents(chain[s])) : getStepAgents(chain[s])[j] \notin Agents

-----------------------------------------------------------------------------
(* mapConcurrent(items, limit, fn) with an arbitrary callback: each callback *)
(* settles at some later time, in any order, with a value or by throwing.    *)

Items == {"x", "y"}

Errors == {"boom", "bang"}

\* What callback i of the call can resolve to
CallbackValues(i) == {[item |-> mcItems[i], index |-> i, v |-> v] : v \in {0, 1}}

\* An empty slot of new Array(items.length)
NoValue == [item |-> "", index |-> 0, v |-> 0]

InitMap ==
    /\ mcItems \in UNION {[1..n -> Items] : n \in 0..MaxItems}
    /\ mcLimit \in 1..MaxLimit
    /\ mcState = "idle"
    /\ mcNext = 1
    /\ mcResults = <<>>
    /\ mcInflight = {}
    /\ mcError = ""
    /\ mcProduced = <<>>
    /\ mcThrown = <<>>

\* No mapConcurrent call of its own is under way
MapIdle ==
    /\ mcItems = <<>>
    /\ mcLimit = 1
    /\ mcState = "idle"
    /\ mcNext = 1
    /\ mcResults = <<>>
    /\ mcInflight = {}
    /\ mcError = ""
    /\ mcProduced = <<>>
    /\ mcThrown = <<>>

\* Variant: results are stored in the order the callbacks settle
StoreResultMut(res, i, v, settledBefore) == [res EXCEPT ![settledBefore + 1] = v]

\* results[i] = await fn(items[i], i)
StoreResult(res, i, v, settledBefore) == [res EXCEPT ![i] = v]

\* Variant: what a callback throws is swallowed
RejectWithMut(state, err, e) == [state |-> state, error |-> err]

\* A rejection of a worker rejects the promise of the call, once
RejectWith(state, err, e) ==
    IF state = "running" THEN [state |-> "rejected", error |-> e]
    ELSE [state |-> state, error |-> err]

\* The call: the workers start, each with the next item in array order
McCall ==
    /\ mcState = "idle"
    /\ mcState' = "running"
    /\ mcResults' = [i \in 1..Len(mcItems) |-> NoValue]
    /\ mcProduced' = [i \in 1..Len(mcItems) |-> NoValue]
    /\ mcInflight' = 1..WorkerCount(Len(mcItems), mcLimit)
    /\ mcNext' = WorkerCount(Len(mcItems), mcLimit) + 1
    /\ UNCHANGED <<nonMapVars, mcItems, mcLimit, mcError, mcThrown>>

\* Callback i resolves to v; its worker stores it and takes the next item
McSettle(i, v) ==
    /\ mcState \in {"running", "rejected"}
    /\ i \in mcInflight
    /\ v \in CallbackValues(i)
    /\ mcProduced' = [mcProduced EXCEPT ![i] = v]
    /\ mcResults' = StoreResult(mcResults, i, v,
                                Cardinality({j \in 1..Len(mcItems) : mcProduced[j] # NoValue}))
    /\ IF mcNext <= Len(mcItems)
       THEN /\ mcInflight' = (mcInflight \ {i}) \cup {mcNext}
            /\ mcNext' = mcNext + 1
       ELSE /\ mcInflight' = mcInflight \ {i}
            /\ mcNext' = mcNext
    /\ UNCHANGED <<nonMapVars, mcItems, mcLimit, mcState, mcError, mcThrown>>

\* Callback i throws e: its worker ends, and the call rejects with e unless
\* it has rejected before; the other workers go on
McThrow(i, e) ==
    /\ mcState \in {"running", "rejected"}
    /\ i \in mcInflight
    /\ mcThrown' = Append(mcThrown, e)
    /\ mcInflight' = mcInflight \ {i}
    /\ mcState' = RejectWith(mcState, mcError, e).state
    /\ mcError' = RejectWith(mcState, mcError, e).error
    /\ UNCHANGED <<nonMapVars, mcItems, mcLimit, mcNext, mcResults, mcProduced>>

\* Every worker ended without a rejection: the call resolves to results
McResolve ==
    /\ mcState = "running"
    /\ mcInflight = {}
    /\ mcState' = "resolved"
    /\ UNCHANGED <<nonMapVars, mcItems, mcLimit, mcNext, mcResults, mcInflight,
                   mcError, mcProduced, mcThrown>>

NextMap ==
    \/ McCall
    \/ \E i \in 1..MaxItems, v \in UNION {CallbackValues(j) : j \in 1..Len(mcItems)} :
          McSettle(i, v)
    \/ \E i \in 1..MaxItems, e \in Errors : McThrow(i, e)
    \/ McResolve

-----------------------------------------------------------------------------
(* runSync: one worker process, the lines it writes and how it ends *)

\* The events of the worker's JSON stream that processLine looks at
ToolExecutionStart ==
    [type |-> "tool_execution_start", role |-> "", errorMessage |-> "", text |-> <<>>,
     toolName |-> "bash", isError |-> FALSE]

ToolExecutionEnd ==
    [type |-> "tool_execution_end", role |-> "", errorMessage |-> "", text |-> <<>>,
     toolName |-> "bash", isError |-> FALSE]

MessageEnd(role, errorMessage, text) ==
    [type |-> "message_end", role |-> role, errorMessage |-> errorMessage, text |-> text,
     toolName |-> "", isError |-> FALSE]

ToolResultEnd(toolName, isError, text) ==
    [type |-> "tool_result_end", role |-> "toolResult", errorMessage |-> "", text |-> text,
     toolName |-> toolName, isError |-> isError]

\* A blank line, or one that JSON.parse rejects
MalformedLine ==
    [type |-> "malformed", role |-> "", errorMessage |-> "", text |-> <<>>,
     toolName |-> "", isError |-> FALSE]

\* No line
NoLine ==
    [type |-> "none", role |-> "", errorMessage |-> "", text |-> <<>>,
     toolName |-> "", isError |-> FALSE]

ToolTexts ==
    { <<>>, <<"ok">>,
      <<"exit", " ", "code", " ", "0">>,
      <<"Command", " ", "exited", " ", "with", " ", "code", ":", " ", "2">> }

Events ==
    {ToolExecutionStart, ToolExecutionEnd, MalformedLine}
    \cup {MessageEnd("assistant", "", <<"ok">>),
          MessageEnd("assistant", "overloaded", <<>>),
          MessageEnd("toolResult", "overloaded", <<>>)}
    \cup {ToolResultEnd("bash", e, t) : e \in BOOLEAN, t \in ToolTexts}
    \cup {ToolResultEnd("", e, <<"ok">>) : e \in BOOLEAN}

\* parseExitCode found no exit code
Undefined == -1

Digits == {"0", "1", "2"}

\* parseInt(m[1], 10)
ParseInt(t) == CASE t = "0" -> 0 [] t = "1" -> 1 [] t = "2" -> 2

\* \s* from position p: the first position that holds no whitespace
RECURSIVE SkipSpaces(_, _)
SkipSpaces(text, p) ==
    IF p <= Len(text) /\ text[p] \in Whitespace THEN SkipSpaces(text, p + 1) ELSE p

TokenAt(text, p) == IF p <= Len(text) THEN text[p] ELSE ""

\* /exit(?:ed)?\s*(?:with\s*)?(?:code|status)?\s*[:\s]?\s*(\d+)/ tried at
\* position p: the number, or Undefined
MatchExitAt(text, p) ==
    IF TokenAt(text, p) \notin {"exit", "exited"} THEN Undefined
    ELSE LET p1 == SkipSpaces(text, p + 1)
             p2 == IF TokenAt(text, p1) = "with" THEN SkipSpaces(text, p1 + 1) ELSE p1
             p3 == IF TokenAt(text, p2) \in {"code", "status"} THEN p2 + 1 ELSE p2
             p4 == SkipSpaces(text, p3)
             p5 == IF TokenAt(text, p4) = ":" THEN p4 + 1 ELSE p4
             p6 == SkipSpaces(text, p5)
         IN  IF TokenAt(text, p6) \in Digits THEN ParseInt(text[p6]) ELSE Undefined

\* The leftmost match from position p on
RECURSIVE MatchExitFrom(_, _)
MatchExitFrom(text, p) ==
    IF p > Len(text) THEN Undefined
    ELSE IF MatchExitAt(text, p) # Undefined THEN MatchExitAt(text, p)
    ELSE MatchExitFrom(text, p + 1)

parseExitCode(text) == IF text = <<>> THEN Undefined ELSE MatchExitFrom(text, 1)

NoToolError == [toolName |-> "", exitCode |-> 0, details |-> <<>>]

\* The caps of progress.recentOutput and progress.recentTools, and the
\* number of lines tailLines is asked for
RecentOutputCap == 50

RecentToolsCap == 5

TailLineCount == 10

\* The lines of a text: the pieces between "\n"
RECURSIVE SplitLines(_)
SplitLines(text) ==
    IF \A k \in 1..Len(text) : text[k] # "\n" THEN <<text>>
    ELSE LET k == CHOOSE i \in 1..Len(text) :
                      text[i] = "\n" /\ \A j \in 1..(i - 1) : text[j] # "\n"
         IN  <<SubSeq(text, 1, k - 1)>> \o SplitLines(SubSeq(text, k + 1, Len(text)))

\* The last maxLines elements
LastOf(lines, maxLines) ==
    IF Len(lines) > maxLines THEN SubSeq(lines, Len(lines) - maxLines + 1, Len(lines))
    ELSE lines

\* tailLines(text, maxLines): the last maxLines lines that are not blank,
\* trimmed, in their order (texts here stay below MAX_TAIL_CHARS)
tailLines(text, maxLines) ==
    IF text = <<>> THEN <<>>
    ELSE LET trimmed == [k \in 1..Len(SplitLines(text)) |-> Trim(SplitLines(text)[k])]
         IN  LastOf(SelectSeq(trimmed, LAMBDA l : l # <<>>), maxLines)

\* Variant: the lines are pushed and nothing is spliced off
PushRecentOutputMut(recentOutput, lines) == recentOutput \o lines

\* recentOutput.push(...lines), then the splice that keeps the last 50
PushRecentOutput(recentOutput, lines) == LastOf(recentOutput \o lines, RecentOutputCap)

\* recentTools.unshift(entry), then the pop that keeps the first 5
UnshiftRecentTool(recentTools, entry) ==
    IF Len(recentTools) + 1 > RecentToolsCap
    THEN SubSeq(<<entry>> \o recentTools, 1, Len(recentTools))
    ELSE <<entry>> \o recentTools

\* The tool result counts as a tool error
IsToolError(isError, toolName, exitCode) ==
    isError \/ (toolName = "bash" /\ exitCode # Undefined /\ exitCode # 0)

\* exitCode ?? 1
RecordedExitCode(exitCode) == IF exitCode = Undefined THEN 1 ELSE exitCode

\* Variant: a line that cannot be parsed is recorded as the error of the task
SkippedLineMut(st) == [st EXCEPT !.error = <<"Unexpected token">>]

\* if (!line.trim()) return, and catch {} around JSON.parse and the handlers
SkippedLine(st) == st

\* Variant: a successful tool result leaves the slot as it is
ClearedToolErrorMut(previous) == previous

\* lastToolError = null
ClearedToolError(previous) == NoToolError

\* What processLine(line) leaves in result.error, lastToolError,
\* finalOutputText and result.usage.turns
processLine(st, evt) ==
    IF evt.type = "tool_execution_start"
    THEN [st EXCEPT !.toolCount = @ + 1, !.currentTool = evt.toolName]
    ELSE IF evt.type = "tool_execution_end"
    THEN [st EXCEPT !.recentTools = IF st.currentTool # ""
                                    THEN UnshiftRecentTool(@, [tool |-> st.currentTool,
                                                               args |-> ""])
                                    ELSE @,
                    !.currentTool = ""]
    ELSE IF evt.type = "message_end"
    THEN IF evt.role = "assistant"
         THEN [st EXCEPT !.turns = @ + 1,
                         !.error = IF evt.errorMessage # "" THEN <<evt.errorMessage>> ELSE @,
                         !.finalOutputText = IF evt.text # <<>> THEN evt.text ELSE @,
                         !.recentOutput =
                             IF evt.text # <<>>
                             THEN PushRecentOutput(@, tailLines(evt.text, TailLineCount))
                             ELSE @]
         ELSE IF evt.errorMessage # ""
              THEN [st EXCEPT !.error = <<evt.errorMessage>>]
              ELSE st
    ELSE IF evt.type = "tool_result_end"
    THEN LET toolName == IF evt.toolName # "" THEN evt.toolName ELSE "tool"
             exitCode == IF toolName = "bash" THEN parseExitCode(evt.text) ELSE Undefined
             st1 == [st EXCEPT !.recentOutput =
                        IF evt.text # <<>>
                        THEN PushRecentOutput(@, tailLines(evt.text, TailLineCount))
                        ELSE @]
         IN  IF IsToolError(evt.isError, toolName, exitCode)
             THEN [st1 EXCEPT !.lastToolError =
                      [toolName |-> toolName,
                       exitCode |-> RecordedExitCode(exitCode),
                       details |-> evt.text]]
             ELSE [st1 EXCEPT !.lastToolError = ClearedToolError(@)]
    ELSE SkippedLine(st)

\* processLine for each line of a chunk, in order
RECURSIVE ProcessLines(_, _)
ProcessLines(st, lines) ==
    IF lines = <<>> THEN st ELSE ProcessLines(processLine(st, Head(lines)), Tail(lines))

RunState ==
    [error |-> rsError, lastToolError |-> rsLastToolError,
     finalOutputText |-> rsFinalOutputText, turns |-> rsTurns,
     toolCount |-> rsToolCount, currentTool |-> rsCurrentTool,
     recentTools |-> rsRecentTools, recentOutput |-> rsRecentOutput]

InitRun ==
    /\ rsPhase = "idle"
    /\ rsCode = 0
    /\ rsExitCode = 0
    /\ rsError = <<>>
    /\ rsLastToolError = NoToolError
    /\ rsFinalOutputText = <<>>
    /\ rsTurns = 0
    /\ rsEvents = <<>>
    /\ rsExitedZero = FALSE
    /\ rsHasSignal = FALSE
    /\ rsAborted = FALSE
    /\ rsListener = FALSE
    /\ rsKilled = FALSE
    /\ rsKillTimer = "none"
    /\ rsSignals = <<>>
    /\ rsAliveAtExpiry = FALSE
    /\ rsToolCount = 0
    /\ rsCurrentTool = ""
    /\ rsRecentTools = <<>>
    /\ rsRecentOutput = <<>>

\* No runSync call of its own is under way
RunIdle == InitRun

\* proc.kill(sig): the signal is delivered, and proc.killed set, only while
\* the process has not exited
ProcKill(alive, killed, delivered, sig) ==
    IF alive THEN [killed |-> TRUE, delivered |-> Append(delivered, sig)]
    ELSE [killed |-> killed, delivered |-> delivered]

\* The timer callback sends SIGKILL when proc.killed is not set
SendsForceKill(killed) == ~killed

\* runSync up to the spawn: an unknown agent is reported without a process
RunStart(agentName) ==
    /\ rsPhase = "idle"
    /\ IF ~KnownAgent(agentName)
       THEN /\ rsPhase' = "done"
            /\ rsExitCode' = 1
            /\ rsError' = <<"Unknown agent: ", agentName>>
            /\ UNCHANGED <<rsListener, rsKilled, rsKillTimer, rsSignals>>
       ELSE /\ rsPhase' = "running"
            /\ rsExitCode' = 0
            /\ rsError' = <<>>
            /\ IF rsHasSignal /\ rsAborted
               THEN /\ rsKilled' = ProcKill(TRUE, rsKilled, rsSignals, "SIGTERM").killed
                    /\ rsSignals' = ProcKill(TRUE, rsKilled, rsSignals, "SIGTERM").delivered
                    /\ rsKillTimer' = "armed"
                    /\ rsListener' = FALSE
               ELSE /\ rsListener' = rsHasSignal
                    /\ UNCHANGED <<rsKilled, rsKillTimer, rsSignals>>
    /\ UNCHANGED <<nonRunVars, rsCode, rsLastToolError, rsFinalOutputText,
                   rsTurns, rsEvents, rsExitedZero, rsHasSignal, rsAborted,
                   rsAliveAtExpiry, progressVars>>

\* stdout delivers a chunk of complete lines: each is processed in order
StdoutData(lines, limit) ==
    /\ rsPhase = "running"
    /\ Len(rsEvents) < limit
    /\ rsEvents' = rsEvents \o lines
    /\ rsError' = ProcessLines(RunState, lines).error
    /\ rsLastToolError' = ProcessLines(RunState, lines).lastToolError
    /\ rsFinalOutputText' = ProcessLines(RunState, lines).finalOutputText
    /\ rsTurns' = ProcessLines(RunState, lines).turns
    /\ rsToolCount' = ProcessLines(RunState, lines).toolCount
    /\ rsCurrentTool' = ProcessLines(RunState, lines).currentTool
    /\ rsRecentTools' = ProcessLines(RunState, lines).recentTools
    /\ rsRecentOutput' = ProcessLines(RunState, lines).recentOutput
    /\ UNCHANGED <<nonRunVars, killVars, rsPhase, rsCode, rsExitCode, rsExitedZero>>

\* stdout delivers one complete line
StdoutLine(evt) == StdoutData(<<evt>>, MaxEvents)

\* The process closes with a code (or none, when a signal ended it): the
\* unterminated rest of the buffer is processed as a last line, stderr
\* becomes the error of a non-zero exit, and the promise resolves
ProcClose(hasCode, code, stderr, tail) ==
    /\ rsPhase = "running"
    /\ tail # NoLine => Len(rsEvents) < MaxEvents
    /\ LET st == IF tail # NoLine THEN processLine(RunState, tail) ELSE RunState
       IN  /\ rsEvents' = IF tail # NoLine THEN Append(rsEvents, tail) ELSE rsEvents
           /\ rsError' = IF ~(hasCode /\ code = 0) /\ stderr # <<>> /\ st.error = <<>>
                         THEN stderr ELSE st.error
           /\ rsLastToolError' = st.lastToolError
           /\ rsFinalOutputText' = st.finalOutputText
           /\ rsTurns' = st.turns
           /\ rsToolCount' = st.toolCount
           /\ rsCurrentTool' = st.currentTool
           /\ rsRecentTools' = st.recentTools
           /\ rsRecentOutput' = st.recentOutput
    /\ rsCode' = IF hasCode THEN code ELSE 0
    /\ rsExitedZero' = (hasCode /\ code = 0)
    /\ rsPhase' = "closed"
    /\ UNCHANGED <<nonRunVars, killVars, rsExitCode>>

\* The process could not be spawned or killed: the promise resolves to 1
ProcError ==
    /\ rsPhase = "running"
    /\ rsCode' = 1
    /\ rsPhase' = "closed"
    /\ UNCHANGED <<nonRunVars, killVars, progressVars, rsExitCode, rsError,
                   rsLastToolError, rsFinalOutputText, rsTurns, rsEvents, rsExitedZero>>

\* The exit code of the hidden failure that replaces a clean exit
OverrideExitCode(lastToolError) == lastToolError.exitCode

\* After the promise: the exit code, and the override of a clean exit by
\* the last tool error
RunFinish ==
    /\ rsPhase = "closed"
    /\ IF rsCode = 0 /\ rsError = <<>> /\ rsLastToolError # NoToolError
       THEN /\ rsExitCode' = OverrideExitCode(rsLastToolError)
            /\ rsError' = IF rsLastToolError.details # <<>>
                          THEN <<rsLastToolError.toolName, " failed (exit ",
                                 ToString(OverrideExitCode(rsLastToolError)), "): ">>
                               \o rsLastToolError.details
                          ELSE <<rsLastToolError.toolName, " failed with exit code ",
                                 ToString(OverrideExitCode(rsLastToolError))>>
       ELSE /\ rsExitCode' = rsCode
            /\ rsError' = rsError
    /\ rsPhase' = "done"
    /\ UNCHANGED <<nonRunVars, killVars, progressVars, rsCode, rsLastToolError,
                   rsFinalOutputText, rsTurns, rsEvents, rsExitedZero>>

\* The caller aborts the signal.  Before the spawn only signal.aborted
\* changes; afterwards the listener, registered once, runs kill: SIGTERM now
\* and a timer of 3000 ms
Abort ==
    /\ rsHasSignal
    /\ ~rsAborted
    /\ rsAborted' = TRUE
    /\ IF rsListener
       THEN /\ rsKilled' = ProcKill(rsPhase = "running", rsKilled, rsSignals, "SIGTERM").killed
            /\ rsSignals' = ProcKill(rsPhase = "running", rsKilled, rsSignals,
                                     "SIGTERM").delivered
            /\ rsKillTimer' = "armed"
            /\ rsListener' = FALSE
       ELSE UNCHANGED <<rsListener, rsKilled, rsKillTimer, rsSignals>>
    /\ UNCHANGED <<nonRunVars, rsPhase, rsCode, rsExitCode, rsError,
                   rsLastToolError, rsFinalOutputText, rsTurns, rsEvents, rsExitedZero,
                   rsHasSignal, rsAliveAtExpiry, progressVars>>

\* 3000 ms after kill: () => !proc.killed && proc.kill("SIGKILL")
KillTimerFires ==
    /\ rsKillTimer = "armed"
    /\ rsKillTimer' = "fired"
    /\ rsAliveAtExpiry' = (rsPhase = "running")
    /\ IF SendsForceKill(rsKilled)
       THEN /\ rsKilled' = ProcKill(rsPhase = "running", rsKilled, rsSignals, "SIGKILL").killed
            /\ rsSignals' = ProcKill(rsPhase = "running", rsKilled, rsSignals,
                                     "SIGKILL").delivered
       ELSE UNCHANGED <<rsKilled, rsSignals>>
    /\ UNCHANGED <<nonRunVars, rsPhase, rsCode, rsExitCode, rsError,
                   rsLastToolError, rsFinalOutputText, rsTurns, rsEvents, rsExitedZero,
                   rsHasSignal, rsAborted, rsListener, progressVars>>

\* The lines of a worker that only reports tool starts
QuietEvents == {ToolExecutionStart, MalformedLine}

\* A run with a cancellation signal
NextKill ==
    \/ \E agentName \in {"a", UnknownName} : RunStart(agentName)
    \/ \E evt \in QuietEvents : StdoutLine(evt)
    \/ \E hasCode \in BOOLEAN, code \in {0, 1}, stderr \in {<<>>, <<"stderr">>} :
          ProcClose(hasCode, code, stderr, NoLine)
    \/ ProcError
    \/ RunFinish
    \/ Abort
    \/ KillTimerFires

\* A tool result of twelve lines, one of them blank and some padded
LongText ==
    <<"l1", "\n", " ", "\n", " ", "l2", " ", "\n", "l3", "\n", "l4", "\n", "l5", "\n",
      "l6", "\n", "l7", "\n", "l8", "\n", "l9", "\n", "l10", "\n", "l11", "\n",
      "l12", "\n">>

\* Chunks of a worker that calls tools: a call with its result, or a
\* message of the assistant
RingChunks ==
    { <<ToolExecutionStart, ToolExecutionEnd, ToolResultEnd("bash", FALSE, LongText)>>,
      <<MessageEnd("assistant", "", LongText)>> }

\* A run observed for its progress rings
NextRing ==
    \/ RunStart("a")
    \/ \E lines \in RingChunks : StdoutData(lines, MaxRingEvents)
    \/ ProcClose(TRUE, 0, <<>>, NoLine)
    \/ RunFinish

NextRun ==
    \/ \E agentName \in {"a", UnknownName} : RunStart(agentName)
    \/ \E evt \in Events : StdoutLine(evt)
    \/ \E hasCode \in BOOLEAN, code \in {0, 1}, stderr \in {<<>>, <<"stderr">>},
          tail \in Events \cup {NoLine} :
          ProcClose(hasCode, code, stderr, tail)
    \/ ProcError
    \/ RunFinish

-----------------------------------------------------------------------------
(* createJsonlWriter: the writer between a pausable source and a sink *)

\* No writer is in use
WriterIdle ==
    /\ jwStream = "noop"
    /\ jwBackpressured = FALSE
    /\ jwClosed = FALSE
    /\ jwListeners = 0
    /\ jwEndPending = FALSE
    /\ jwCalls = 0
    /\ jwSinkWrites = 0
    /\ jwPauses = 0
    /\ jwResumes = 0
    /\ jwEnds = 0
    /\ jwCloseCalls = 0
    /\ jwDrains = 0
    /\ jwDrainSincePause = FALSE
    /\ jwAccepted = <<>>
    /\ jwSinkLog = <<>>

\* createJsonlWriter(filePath, source, deps): without a path, or when the
\* sink cannot be created, the writer does nothing
InitWriter ==
    /\ jwStream \in {"noop", "set"}
    /\ jwBackpressured = FALSE
    /\ jwClosed = FALSE
    /\ jwListeners = 0
    /\ jwEndPending = FALSE
    /\ jwCalls = 0
    /\ jwSinkWrites = 0
    /\ jwPauses = 0
    /\ jwResumes = 0
    /\ jwEnds = 0
    /\ jwCloseCalls = 0
    /\ jwDrains = 0
    /\ jwDrainSincePause = FALSE
    /\ jwAccepted = <<>>
    /\ jwSinkLog = <<>>

\* Variant: only a writer without a sink, and a blank line, skip the write
SkipsLineMut(stream, closed, blank) == stream = "noop" \/ blank

\* if (!stream || closed || !line.trim()) return
SkipsLine(stream, closed, blank) == stream # "set" \/ closed \/ blank

\* Variant: every refused write pauses the source
PausesSourceMut(ok, backpressured) == ~ok

\* if (!ok && !backpressured)
PausesSource(ok, backpressured) == ~ok /\ ~backpressured

\* Variant: every close ends the sink
ClosesSinkMut(stream, closed) == stream # "noop"

\* if (!stream || closed) return
ClosesSink(stream, closed) == stream = "set" /\ ~closed

\* if (!closed) source.resume()
ResumesOnDrain(closed) == ~closed

\* The line of the n-th writeLine call: blank, or a text of its own
LineText(n, blank) == IF blank THEN " " ELSE "line" \o ToString(n)

\* `${line}\n`
WithNewline(line) == line \o "\n"

\* writeLine(line); the sink's write returns true ("ok"), false ("full") or
\* throws ("throw")
WriteLine(blank, outcome) ==
    /\ jwCalls < MaxWrites
    /\ jwCalls' = jwCalls + 1
    /\ jwAccepted' = IF ~blank /\ ~jwClosed
                     THEN Append(jwAccepted, LineText(jwCalls + 1, blank))
                     ELSE jwAccepted
    /\ IF SkipsLine(jwStream, jwClosed, blank)
       THEN UNCHANGED <<jwSinkWrites, jwBackpressured, jwPauses, jwListeners,
                        jwDrainSincePause, jwSinkLog>>
       ELSE /\ jwSinkWrites' = jwSinkWrites + 1
            /\ jwSinkLog' = Append(jwSinkLog, WithNewline(LineText(jwCalls + 1, blank)))
            /\ IF outcome # "throw" /\ PausesSource(outcome = "ok", jwBackpressured)
               THEN /\ jwBackpressured' = TRUE
                    /\ jwPauses' = jwPauses + 1
                    /\ jwListeners' = jwListeners + 1
                    /\ jwDrainSincePause' = FALSE
               ELSE UNCHANGED <<jwBackpressured, jwPauses, jwListeners, jwDrainSincePause>>
    /\ UNCHANGED <<nonWriterVars, jwStream, jwClosed, jwEndPending, jwResumes, jwEnds,
                   jwCloseCalls, jwDrains>>

\* The sink signals drain: every listener registered with once runs, once
Drain ==
    /\ jwDrains < MaxDrains
    /\ jwDrains' = jwDrains + 1
    /\ jwDrainSincePause' = TRUE
    /\ IF jwListeners > 0
       THEN /\ jwBackpressured' = FALSE
            /\ jwResumes' = IF ResumesOnDrain(jwClosed)
                            THEN jwResumes + jwListeners ELSE jwResumes
            /\ jwListeners' = 0
       ELSE UNCHANGED <<jwBackpressured, jwResumes, jwListeners>>
    /\ UNCHANGED <<nonWriterVars, jwStream, jwClosed, jwEndPending, jwCalls, jwSinkWrites,
                   jwPauses, jwEnds, jwCloseCalls, jwAccepted, jwSinkLog>>

\* close(), up to its await
Close ==
    /\ jwCloseCalls < MaxCloses
    /\ jwCloseCalls' = jwCloseCalls + 1
    /\ IF ClosesSink(jwStream, jwClosed)
       THEN /\ jwClosed' = TRUE
            /\ jwStream' = "unset"
            /\ jwEnds' = jwEnds + 1
            /\ jwEndPending' = TRUE
       ELSE UNCHANGED <<jwClosed, jwStream, jwEnds, jwEndPending>>
    /\ UNCHANGED <<nonWriterVars, jwBackpressured, jwListeners, jwCalls, jwSinkWrites,
                   jwPauses, jwResumes, jwDrains, jwDrainSincePause, jwAccepted, jwSinkLog>>

\* The sink runs the callback of end: the promise of close resolves
EndCallback ==
    /\ jwEndPending
    /\ jwEndPending' = FALSE
    /\ UNCHANGED <<nonWriterVars, jwStream, jwBackpressured, jwClosed, jwListeners, jwCalls,
                   jwSinkWrites, jwPauses, jwResumes, jwEnds, jwCloseCalls, jwDrains,
                   jwDrainSincePause, jwAccepted, jwSinkLog>>

NextWriter ==
    \/ \E blank \in BOOLEAN, outcome \in {"ok", "full", "throw"} : WriteLine(blank, outcome)
    \/ Drain
    \/ Close
    \/ EndCallback

-----------------------------------------------------------------------------
(* The pure functions of the settings, applied to drawn inputs *)

\* AgentConfig records: each chain field given or undefined
AgentConfigs ==
    { [name |-> "a", hasOutput |-> ho, output |-> IF ho THEN "a.md" ELSE "",
       hasReads |-> hr, defaultReads |-> IF hr THEN <<"ctx.md">> ELSE <<>>,
       hasProgress |-> hp, defaultProgress |-> hp /\ dp] :
      ho \in BOOLEAN, hr \in BOOLEAN, hp \in BOOLEAN, dp \in BOOLEAN }

\* StepOverrides records: each field undefined, false or a value
OverrideChoices ==
    { [hasOutput |-> ho, output |-> IF ho THEN o ELSE "",
       hasReads |-> hr, reads |-> IF hr THEN r ELSE <<>>,
       hasProgress |-> hp, progress |-> hp /\ p] :
      ho \in BOOLEAN, o \in {FalseOutput, "step.md"},
      hr \in BOOLEAN, r \in {FalseReads, <<"in.md">>},
      hp \in BOOLEAN, p \in BOOLEAN }

\* Steps with and without an inline task
PureSequential == {SequentialStep("a", NoTask), SequentialStep("b", InlineTask)}

PureItems == {ParallelTaskItem("a", NoTask), ParallelTaskItem("b", GroupTask)}

PureGroups ==
    { ParallelStep(items, MaxGroupLen, FALSE) :
        items \in UNION { [1..n -> PureItems] : n \in 0..MaxGroupLen } }

PureChains == UNION { [1..n -> PureSequential \cup PureGroups] : n \in 0..MaxChainLen }

\* Variant: an empty group stays in the list as an entry
flattenStepMut(step) ==
    IF isParallelStep(step) /\ step.parallel # <<>> THEN step.parallel ELSE <<step>>

\* What one step contributes to the flat list
flattenStep(step) == IF isParallelStep(step) THEN step.parallel ELSE <<step>>

RECURSIVE flattenSteps(_)
flattenSteps(steps) ==
    IF steps = <<>> THEN <<>>
    ELSE flattenStep(Head(steps)) \o flattenSteps(Tail(steps))

NoBehavior == [output |-> FalseOutput, reads |-> FalseReads, progress |-> FALSE]

\* ParallelTaskResult records: a task that succeeded with output, with no
\* output, with blank output, and one that failed with and without error text
TaskResultChoices ==
    { [agent |-> ag, output |-> o.output, exitCode |-> o.exitCode, error |-> o.error] :
        ag \in Agents,
        o \in { [output |-> <<"ok">>, exitCode |-> 0, error |-> ""],
                [output |-> <<>>, exitCode |-> 0, error |-> ""],
                [output |-> <<" ", "\n", " ">>, exitCode |-> 0, error |-> ""],
                [output |-> <<>>, exitCode |-> 1, error |-> "timeout"],
                [output |-> <<"partial">>, exitCode |-> 1, error |-> ""] } }

TaskResultLists == UNION { [1..n -> TaskResultChoices] : n \in 0..MaxGroupLen }

PureIdle ==
    /\ pfKind = "none"
    /\ pfConfig = AgentConfig("a")
    /\ pfOverrides = NoOverrides
    /\ pfSteps = <<>>
    /\ pfDone = {}
    /\ pfBehavior = NoBehavior
    /\ pfTemplates = <<>>
    /\ pfFlat = <<>>
    /\ pfResults = <<>>
    /\ pfAggregate = <<>>

InitPure ==
    /\ pfDone = {}
    /\ pfBehavior = NoBehavior
    /\ pfTemplates = <<>>
    /\ pfFlat = <<>>
    /\ pfAggregate = <<>>
    /\ \/ /\ pfKind = "behavior"
          /\ pfConfig \in AgentConfigs
          /\ pfOverrides \in OverrideChoices
          /\ pfSteps = <<>>
          /\ pfResults = <<>>
       \/ /\ pfKind = "chain"
          /\ pfConfig = AgentConfig("a")
          /\ pfOverrides = NoOverrides
          /\ pfSteps \in PureChains
          /\ pfResults = <<>>
       \/ /\ pfKind = "aggregate"
          /\ pfConfig = AgentConfig("a")
          /\ pfOverrides = NoOverrides
          /\ pfSteps = <<>>
          /\ pfResults \in TaskResultLists

CallResolveStepBehavior ==
    /\ pfKind = "behavior"
    /\ "resolveStepBehavior" \notin pfDone
    /\ pfBehavior' = resolveStepBehavior(pfConfig, pfOverrides)
    /\ pfDone' = pfDone \cup {"resolveStepBehavior"}
    /\ UNCHANGED <<nonPureVars, pfKind, pfConfig, pfOverrides, pfSteps, pfTemplates, pfFlat,
                   pfResults, pfAggregate>>

CallResolveChainTemplates ==
    /\ pfKind = "chain"
    /\ "resolveChainTemplates" \notin pfDone
    /\ pfTemplates' = resolveChainTemplates(pfSteps)
    /\ pfDone' = pfDone \cup {"resolveChainTemplates"}
    /\ UNCHANGED <<nonPureVars, pfKind, pfConfig, pfOverrides, pfSteps, pfBehavior, pfFlat,
                   pfResults, pfAggregate>>

CallFlattenSteps ==
    /\ pfKind = "chain"
    /\ "flattenSteps" \notin pfDone
    /\ pfFlat' = flattenSteps(pfSteps)
    /\ pfDone' = pfDone \cup {"flattenSteps"}
    /\ UNCHANGED <<nonPureVars, pfKind, pfConfig, pfOverrides, pfSteps, pfBehavior,
                   pfTemplates, pfResults, pfAggregate>>

CallAggregateParallelOutputs ==
    /\ pfKind = "aggregate"
    /\ "aggregateParallelOutputs" \notin pfDone
    /\ pfAggregate' = aggregateParallelOutputs(pfResults)
    /\ pfDone' = pfDone \cup {"aggregateParallelOutputs"}
    /\ UNCHANGED <<nonPureVars, pfKind, pfConfig, pfOverrides, pfSteps, pfBehavior,
                   pfTemplates, pfFlat, pfResults>>

NextPure ==
    \/ CallResolveStepBehavior
    \/ CallResolveChainTemplates
    \/ CallFlattenSteps
    \/ CallAggregateParallelOutputs

-----------------------------------------------------------------------------
(* The runner of a background run and its run record *)

AsyncIdle ==
    /\ arChain = <<>>
    /\ arPc = "none"
    /\ arStatus = [exists |-> FALSE, state |-> "pending", steps |-> <<>>]
    /\ arStepIdx = 1
    /\ arNext = 1
    /\ arLive = {}
    /\ arFiles = {}
    /\ arSpawned = {}
    /\ arWrites = {}

\* Groups of 0..MaxAsyncPar tasks whose agents alternate, run one at a time
\* or all at once
AsyncGroups ==
    { ParallelStep([j \in 1..n |->
                       ParallelTaskItem(IF j % 2 = 1 THEN "a" ELSE "b", GroupTask)],
                   c, FALSE) :
        n \in 0..MaxAsyncPar, c \in {1, MaxAsyncPar} }

AsyncSteps == {SequentialStep("a", InlineTask)} \cup AsyncGroups

AsyncChains == UNION { [1..n -> AsyncSteps] : n \in 1..MaxAsyncSteps }

InitAsync ==
    /\ arChain \in AsyncChains
    /\ arPc = "accept"
    /\ arStatus = [exists |-> FALSE, state |-> "pending", steps |-> <<>>]
    /\ arStepIdx = 1
    /\ arNext = 1
    /\ arLive = {}
    /\ arFiles = {}
    /\ arSpawned = {}
    /\ arWrites = {}

\* Flat index, from 0, of the first leaf of chain step i
FlatBase(steps, i) ==
    LET RECURSIVE Before(_)
        Before(k) == IF k <= 1 THEN 0 ELSE Before(k - 1) + getStepTaskCount(steps[k - 1])
    IN  Before(i)

\* The agent of a leaf: a sequential step or a task of a group
LeafAgent(leaf) == leaf.agent

\* Variant: the record is first written at the first leaf transition
InitialRecordMut(steps) == [exists |-> FALSE, state |-> "pending", steps |-> <<>>]

\* The record persisted on accepting the run: every leaf pending
InitialRecord(steps) ==
    LET flat == flattenSteps(steps)
    IN  [exists |-> TRUE, state |-> "pending",
         steps |-> [k \in 1..Len(flat) |->
                       [flatIndex |-> k - 1, agent |-> LeafAgent(flat[k]),
                        status |-> "pending"]]]

\* Variant: one shared capture file
OutputFileMut(flatIndex) == "output.log"

\* output-{flatIndex}.log
OutputFile(flatIndex) == "output-" \o ToString(flatIndex) \o ".log"

\* A leaf transition written back to the record
WriteLeaf(status, n, st) ==
    IF n + 1 \in DOMAIN status.steps
    THEN [status EXCEPT !.exists = TRUE, !.steps[n + 1].status = st]
    ELSE [status EXCEPT !.exists = TRUE]

\* Accepting the run: flatten the chain and persist the initial record
AsyncAccept ==
    /\ arPc = "accept"
    /\ arStatus' = InitialRecord(arChain)
    /\ arPc' = "run"
    /\ UNCHANGED <<nonAsyncVars, arChain, arStepIdx, arNext, arLive, arFiles, arSpawned,
                   arWrites>>

\* A leaf starts: its transition is written, its capture file is opened and
\* its worker process is spawned
AsyncStartLeaf ==
    /\ arPc = "run"
    /\ arStepIdx <= Len(arChain)
    /\ LET step == arChain[arStepIdx]
           n == FlatBase(arChain, arStepIdx) + arNext - 1
       IN  /\ arNext <= getStepTaskCount(step)
           /\ Cardinality(arLive) < (IF isParallelStep(step) THEN step.concurrency ELSE 1)
           /\ arStatus' = [WriteLeaf(arStatus, n, "running") EXCEPT !.state = "running"]
           /\ arFiles' = arFiles \cup {OutputFile(n)}
           /\ arLive' = arLive \cup {n}
           /\ arSpawned' = arSpawned \cup {n}
           /\ arNext' = arNext + 1
    /\ UNCHANGED <<nonAsyncVars, arChain, arPc, arStepIdx, arWrites>>

\* A live worker writes raw output, which goes to the capture file of its leaf
AsyncLeafOutput(n) ==
    /\ n \in arLive
    /\ <<n, OutputFile(n)>> \notin arWrites
    /\ arWrites' = arWrites \cup {<<n, OutputFile(n)>>}
    /\ arFiles' = arFiles \cup {OutputFile(n)}
    /\ UNCHANGED <<nonAsyncVars, arChain, arPc, arStatus, arStepIdx, arNext, arLive,
                   arSpawned>>

\* A worker process exits: the transition of its leaf is written
AsyncLeafExit(n, ok) ==
    /\ n \in arLive
    /\ arLive' = arLive \ {n}
    /\ arStatus' = WriteLeaf(arStatus, n, IF ok THEN "completed" ELSE "failed")
    /\ UNCHANGED <<nonAsyncVars, arChain, arPc, arStepIdx, arNext, arFiles, arSpawned,
                   arWrites>>

\* Leaves of chain step i that failed
FailedLeaves(status, steps, i) ==
    { k \in (FlatBase(steps, i) + 1)..FlatBase(steps, i + 1) :
        k \in DOMAIN status.steps /\ status.steps[k].status = "failed" }

\* Every leaf of the current step has ended: the run fails, goes on to the
\* next step or completes
AsyncStepDone ==
    /\ arPc = "run"
    /\ arStepIdx <= Len(arChain)
    /\ arNext > getStepTaskCount(arChain[arStepIdx])
    /\ arLive = {}
    /\ IF FailedLeaves(arStatus, arChain, arStepIdx) # {}
       THEN /\ arStatus' = [arStatus EXCEPT !.exists = TRUE, !.state = "failed"]
            /\ arPc' = "done"
            /\ UNCHANGED <<arStepIdx, arNext>>
       ELSE IF arStepIdx = Len(arChain)
       THEN /\ arStatus' = [arStatus EXCEPT !.exists = TRUE, !.state = "completed"]
            /\ arPc' = "done"
            /\ UNCHANGED <<arStepIdx, arNext>>
       ELSE /\ arStepIdx' = arStepIdx + 1
            /\ arNext' = 1
            /\ UNCHANGED <<arStatus, arPc>>
    /\ UNCHANGED <<nonAsyncVars, arChain, arLive, arFiles, arSpawned, arWrites>>

MaxFlat == MaxAsyncSteps * MaxAsyncPar

NextAsync ==
    \/ AsyncAccept
    \/ AsyncStartLeaf
    \/ \E n \in 0..(MaxFlat - 1) : AsyncLeafOutput(n)
    \/ \E n \in 0..(MaxFlat - 1), ok \in BOOLEAN : AsyncLeafExit(n, ok)
    \/ AsyncStepDone

-----------------------------------------------------------------------------
(* The stdout buffer of runSync *)

\* The characters a worker writes: a letter, a space, a newline, and a
\* character that UTF-8 encodes in two bytes
StreamChars == {"x", " ", "\n", "U+00E9"}

\* U+FFFD, which Buffer.toString puts in place of an incomplete sequence
ReplacementChar == "U+FFFD"

\* The UTF-8 bytes of a character
Utf8Bytes(c) == IF c = "U+00E9" THEN <<"C3", "A9">> ELSE <<c>>

RECURSIVE Encode(_)
Encode(chars) ==
    IF chars = <<>> THEN <<>> ELSE Utf8Bytes(Head(chars)) \o Encode(Tail(chars))

RECURSIVE CharSeqsUpTo(_)
CharSeqsUpTo(n) ==
    IF n = 0 THEN {<<>>}
    ELSE LET shorter == CharSeqsUpTo(n - 1)
         IN  shorter \cup {Append(s, c) : s \in shorter, c \in StreamChars}

\* What the worker can write: valid UTF-8
StdoutStreams == {Encode(cs) : cs \in CharSeqsUpTo(MaxStreamChars)}

\* Variant: the chunk is decoded by a decoder that was given the whole stream,
\* so a character cut by the chunk boundary appears once, where it ends
RECURSIVE DecodeChunkMut(_)
DecodeChunkMut(bytes) ==
    IF bytes = <<>> THEN <<>>
    ELSE IF Head(bytes) = "C3" THEN DecodeChunkMut(Tail(bytes))
    ELSE IF Head(bytes) = "A9" THEN <<"U+00E9">> \o DecodeChunkMut(Tail(bytes))
    ELSE <<Head(bytes)>> \o DecodeChunkMut(Tail(bytes))

\* d.toString(): each chunk is decoded on its own; a lead byte without its
\* continuation byte, and a continuation byte without its lead, become U+FFFD
RECURSIVE DecodeChunk(_)
DecodeChunk(bytes) ==
    IF bytes = <<>> THEN <<>>
    ELSE IF Head(bytes) = "C3"
         THEN IF Len(bytes) >= 2 /\ bytes[2] = "A9"
              THEN <<"U+00E9">> \o DecodeChunk(SubSeq(bytes, 3, Len(bytes)))
              ELSE <<ReplacementChar>> \o DecodeChunk(Tail(bytes))
    ELSE IF Head(bytes) = "A9" THEN <<ReplacementChar>> \o DecodeChunk(Tail(bytes))
    ELSE <<Head(bytes)>> \o DecodeChunk(Tail(bytes))

\* buf.indexOf("\n"), counted from 1; 0 when there is none
IndexOfNewline(text) ==
    IF \E i \in 1..Len(text) : text[i] = "\n"
    THEN CHOOSE i \in 1..Len(text) :
            text[i] = "\n" /\ \A j \in 1..(i - 1) : text[j] # "\n"
    ELSE 0

\* The while loop of the data handler: every terminated line leaves the buffer
RECURSIVE DrainBuffer(_, _)
DrainBuffer(buffer, handed) ==
    LET idx == IndexOfNewline(buffer)
    IN  IF idx = 0 THEN [buf |-> buffer, lines |-> handed]
        ELSE DrainBuffer(SubSeq(buffer, idx + 1, Len(buffer)),
                         Append(handed, SubSeq(buffer, 1, idx - 1)))

\* !text.trim()
IsBlankText(text) == \A i \in 1..Len(text) : text[i] = " "

BufIdle ==
    /\ sbStream = <<>>
    /\ sbPos = 0
    /\ sbBuf = <<>>
    /\ sbLines = <<>>
    /\ sbClosed = FALSE
    /\ sbCutInChar = FALSE

\* let buf = "" when the worker has been spawned
InitBuf ==
    /\ sbStream \in StdoutStreams
    /\ sbPos = 0
    /\ sbBuf = <<>>
    /\ sbLines = <<>>
    /\ sbClosed = FALSE
    /\ sbCutInChar = FALSE

\* proc.stdout.on("data"): the next n bytes arrive as one chunk
StdoutChunk(n) ==
    /\ ~sbClosed
    /\ sbPos + n <= Len(sbStream)
    /\ LET d == SubSeq(sbStream, sbPos + 1, sbPos + n)
           drained == DrainBuffer(sbBuf \o DecodeChunk(d), sbLines)
       IN  /\ sbBuf' = drained.buf
           /\ sbLines' = drained.lines
           /\ sbCutInChar' = (sbCutInChar \/ sbStream[sbPos + n] = "C3")
    /\ sbPos' = sbPos + n
    /\ UNCHANGED <<nonBufVars, sbStream, sbClosed>>

\* proc.on("close"): stdout has ended; what is left in buf is one more line
BufClose ==
    /\ ~sbClosed
    /\ sbPos = Len(sbStream)
    /\ sbClosed' = TRUE
    /\ sbLines' = IF IsBlankText(sbBuf) THEN sbLines ELSE Append(sbLines, sbBuf)
    /\ UNCHANGED <<nonBufVars, sbStream, sbPos, sbBuf, sbCutInChar>>

NextBuf ==
    \/ \E n \in 1..MaxChunkBytes : StdoutChunk(n)
    \/ BufClose

-----------------------------------------------------------------------------
(* The throttled progress updates of runSync *)

\* const UPDATE_THROTTLE_MS = 50
UPDATE_THROTTLE_MS == 50

\* pendingTimer = null
NoTimer == 0

\* Date.now() when the worker is spawned: far from the 0 lastUpdateTime starts at
StartMs == 2 * UPDATE_THROTTLE_MS

\* The time up to which chunks and the close may arrive
LastMs == StartMs + MaxTicks * TickMs

\* The lines one stdout chunk can complete
ThrottleLines == {ToolExecutionStart, ToolExecutionEnd, MalformedLine}

RECURSIVE LineSeqsUpTo(_)
LineSeqsUpTo(n) ==
    IF n = 0 THEN {<<>>}
    ELSE LET shorter == LineSeqsUpTo(n - 1)
         IN  shorter \cup {Append(s, e) : s \in shorter, e \in ThrottleLines}

ThrottleChunks == LineSeqsUpTo(MaxChunkLines)

\* No run within the bounds sets more timers than this
MaxTimerId == MaxThrottleChunks * (MaxChunkLines + 1)

\* The variables the handlers share, as one value
ThrottleState ==
    [lastUpdateTime |-> thLastUpdateTime, updatePending |-> thUpdatePending,
     pendingTimer |-> thPendingTimer, timers |-> thTimers,
     nextTimerId |-> thNextTimerId, processClosed |-> thProcessClosed,
     toolCount |-> thToolCount, currentTool |-> thCurrentTool, log |-> thLog,
     unserved |-> thUnserved]

ThrottleInstall(ts) ==
    /\ thLastUpdateTime' = ts.lastUpdateTime
    /\ thUpdatePending' = ts.updatePending
    /\ thPendingTimer' = ts.pendingTimer
    /\ thTimers' = ts.timers
    /\ thNextTimerId' = ts.nextTimerId
    /\ thProcessClosed' = ts.processClosed
    /\ thToolCount' = ts.toolCount
    /\ thCurrentTool' = ts.currentTool
    /\ thLog' = ts.log
    /\ thUnserved' = ts.unserved

\* onUpdate({... progress: [progress]})
Emission(ts, now, forced) ==
    [kind |-> "emit", at |-> now, forced |-> forced, toolCount |-> ts.toolCount,
     currentTool |-> ts.currentTool, closed |-> ts.processClosed]

\* Observation: a tool_execution_start line has been handled
ToolStartSeen(ts, now) ==
    [kind |-> "start", at |-> now, forced |-> FALSE, toolCount |-> ts.toolCount,
     currentTool |-> ts.currentTool, closed |-> ts.processClosed]

\* clearTimeout(pendingTimer)
ClearTimeout(timers, id) == {t \in timers : t.id # id}

\* Variant: the delayed update is due at once
TimerDelayMut(elapsed) == 0

\* setTimeout(..., UPDATE_THROTTLE_MS - elapsed)
TimerDelay(elapsed) == UPDATE_THROTTLE_MS - elapsed

\* Variant: only a missing listener makes scheduleUpdate return at once
ReturnsAtOnceMut(listener, processClosed) == ~listener

\* if (!onUpdate || processClosed) return
ReturnsAtOnce(listener, processClosed) == ~listener \/ processClosed

\* scheduleUpdate(), called at time now; forced tells that the caller is the
\* tool_execution_start handler
scheduleUpdate(ts, now, forced) ==
    IF ReturnsAtOnce(thListener, ts.processClosed) THEN ts
    ELSE LET elapsed == now - ts.lastUpdateTime
         IN  IF elapsed >= UPDATE_THROTTLE_MS
             THEN [ts EXCEPT !.timers = ClearTimeout(@, ts.pendingTimer),
                             !.pendingTimer = NoTimer,
                             !.lastUpdateTime = now,
                             !.updatePending = FALSE,
                             !.log = Append(@, Emission(ts, now, forced)),
                             !.unserved = FALSE]
             ELSE IF ~ts.updatePending
             THEN [ts EXCEPT !.updatePending = TRUE,
                             !.pendingTimer = ts.nextTimerId,
                             !.timers = @ \cup {[id |-> ts.nextTimerId,
                                                 due |-> now + TimerDelay(elapsed)]},
                             !.nextTimerId = @ + 1,
                             !.unserved = TRUE]
             ELSE [ts EXCEPT !.unserved = TRUE]

\* What processLine does to the progress record and the throttle
ThrottleLine(ts, evt, now) ==
    IF evt.type = "tool_execution_start"
    THEN LET counted == [ts EXCEPT !.toolCount = @ + 1,
                                   !.currentTool = evt.toolName,
                                   !.lastUpdateTime = 0]
             seen == [counted EXCEPT !.log = Append(@, ToolStartSeen(counted, now))]
         IN  scheduleUpdate(seen, now, TRUE)
    ELSE IF evt.type = "tool_execution_end"
    THEN scheduleUpdate([ts EXCEPT !.currentTool = ""], now, FALSE)
    ELSE ts

RECURSIVE ThrottleLinesFrom(_, _, _)
ThrottleLinesFrom(ts, lines, now) ==
    IF lines = <<>> THEN ts
    ELSE ThrottleLinesFrom(ThrottleLine(ts, Head(lines), now), Tail(lines), now)

ThrottleIdle ==
    /\ thListener = FALSE
    /\ thNow = 0
    /\ thLastUpdateTime = 0
    /\ thUpdatePending = FALSE
    /\ thPendingTimer = NoTimer
    /\ thTimers = {}
    /\ thNextTimerId = 1
    /\ thProcessClosed = FALSE
    /\ thToolCount = 0
    /\ thCurrentTool = ""
    /\ thChunks = 0
    /\ thLog = <<>>
    /\ thUnserved = FALSE

\* The worker has been spawned
InitThrottle ==
    /\ thListener \in BOOLEAN
    /\ thNow = StartMs
    /\ thLastUpdateTime = 0
    /\ thUpdatePending = FALSE
    /\ thPendingTimer = NoTimer
    /\ thTimers = {}
    /\ thNextTimerId = 1
    /\ thProcessClosed = FALSE
    /\ thToolCount = 0
    /\ thCurrentTool = ""
    /\ thChunks = 0
    /\ thLog = <<>>
    /\ thUnserved = FALSE

\* proc.stdout.on("data"): the chunk completes these lines; then scheduleUpdate()
ThrottleData(lines) ==
    /\ ~thProcessClosed
    /\ thChunks < MaxThrottleChunks
    /\ thNow <= LastMs
    /\ thChunks' = thChunks + 1
    /\ ThrottleInstall(scheduleUpdate(ThrottleLinesFrom(ThrottleState, lines, thNow),
                                      thNow, FALSE))
    /\ UNCHANGED <<nonThrottleVars, thListener, thNow>>

\* The callback given to setTimeout runs
ThrottleTimerFires(id) ==
    /\ \E t \in thTimers : t.id = id /\ t.due <= thNow
    /\ LET cleared == [ThrottleState EXCEPT !.timers = ClearTimeout(@, id),
                                            !.pendingTimer = NoTimer]
       IN  ThrottleInstall(
               IF cleared.updatePending /\ ~cleared.processClosed
               THEN [cleared EXCEPT !.updatePending = FALSE,
                                    !.lastUpdateTime = thNow,
                                    !.log = Append(@, Emission(cleared, thNow, FALSE)),
                                    !.unserved = FALSE]
               ELSE cleared)
    /\ UNCHANGED <<nonThrottleVars, thListener, thNow, thChunks>>

\* proc.on("close"): processClosed, the timer is cleared, what is left in buf
\* is handled as one more line
ThrottleClose(tail) ==
    /\ ~thProcessClosed
    /\ thNow <= LastMs
    /\ LET closed == [ThrottleState EXCEPT !.processClosed = TRUE,
                                           !.timers = ClearTimeout(@, thPendingTimer),
                                           !.pendingTimer = NoTimer]
       IN  ThrottleInstall(IF tail = NoLine THEN closed
                           ELSE ThrottleLine(closed, tail, thNow))
    /\ UNCHANGED <<nonThrottleVars, thListener, thNow, thChunks>>

\* Time passes; it goes on passing while a timer is set
ThrottleTick ==
    /\ thNow < LastMs \/ \E t \in thTimers : t.due > thNow
    /\ thNow' = thNow + TickMs
    /\ UNCHANGED <<nonThrottleVars, thListener, thLastUpdateTime, thUpdatePending,
                   thPendingTimer, thTimers, thNextTimerId, thProcessClosed,
                   thToolCount, thCurrentTool, thChunks, thLog, thUnserved>>

NextThrottle ==
    \/ \E lines \in ThrottleChunks : ThrottleData(lines)
    \/ \E id \in 1..MaxTimerId : ThrottleTimerFires(id)
    \/ \E tail \in ThrottleLines \cup {NoLine} : ThrottleClose(tail)
    \/ ThrottleTick

-----------------------------------------------------------------------------
(* What runSync retains: result.messages and stderrBuf *)

\* const MAX_STORED_MESSAGES = 200
MAX_STORED_MESSAGES == 200

\* const MAX_STDERR_CHARS = 200_000
MAX_STDERR_CHARS == 200000

\* The repository holds runSync twice: in execution.ts, and in a file whose
\* name is not known
Runners == {"execution.ts", "unnamed/part_001"}

\* Messages whose handling differs between the two: an assistant message, and
\* the message of a tool result that did not fail
RetainKinds == {"assistant", "toolResult"}

\* pushMessage of execution.ts: the oldest go once there are more than 200
pushMessage(messages, msg) ==
    LET pushed == Append(messages, msg)
    IN  IF Len(pushed) > MAX_STORED_MESSAGES
        THEN SubSeq(pushed, Len(pushed) - MAX_STORED_MESSAGES + 1, Len(pushed))
        ELSE pushed

\* result.messages.push(evt.message) of the other runSync
PushUncapped(messages, msg) == Append(messages, msg)

\* stderrBuf += d.toString(), then slice(-MAX_STDERR_CHARS) when it is longer
AppendStderr(held, n) ==
    LET to == held.to + n
    IN  [from |-> IF to - held.from > MAX_STDERR_CHARS
                  THEN to - MAX_STDERR_CHARS ELSE held.from,
         to |-> to]

\* stderrBuf += d.toString() of the other runSync
AppendStderrUncapped(held, n) == [from |-> held.from, to |-> held.to + n]

RetainIdle ==
    /\ rtRunner = ""
    /\ rtMessages = <<>>
    /\ rtPushed = 0
    /\ rtStderr = [from |-> 0, to |-> 0]
    /\ rtChunks = 0

\* messages: [] and let stderrBuf = ""
InitRetain ==
    /\ rtRunner \in Runners
    /\ rtMessages = <<>>
    /\ rtPushed = 0
    /\ rtStderr = [from |-> 0, to |-> 0]
    /\ rtChunks = 0

\* A message_end or tool_result_end line with a message of this kind
RetainMessage(kind) ==
    /\ rtPushed < MaxPushes
    /\ LET keeps == rtRunner = "unnamed/part_001" \/ kind = "assistant"
       IN  /\ rtPushed' = IF keeps THEN rtPushed + 1 ELSE rtPushed
           /\ rtMessages' =
                  IF ~keeps THEN rtMessages
                  ELSE IF rtRunner = "execution.ts"
                  THEN pushMessage(rtMessages, rtPushed + 1)
                  ELSE PushUncapped(rtMessages, rtPushed + 1)
    /\ UNCHANGED <<nonRetainVars, rtRunner, rtStderr, rtChunks>>

\* proc.stderr.on("data") with a chunk of n characters
StderrData(n) ==
    /\ rtChunks < MaxStderrChunks
    /\ rtChunks' = rtChunks + 1
    /\ rtStderr' = IF rtRunner = "execution.ts" THEN AppendStderr(rtStderr, n)
                   ELSE AppendStderrUncapped(rtStderr, n)
    /\ UNCHANGED <<nonRetainVars, rtRunner, rtMessages, rtPushed>>

NextRetain ==
    \/ \E kind \in RetainKinds : RetainMessage(kind)
    \/ \E n \in {1, StderrChunkChars} : StderrData(n)

-----------------------------------------------------------------------------
(* runSync and the events of its child process, before and after its return *)

\* The lines of a worker that reports tools and assistant messages
SettleEvents ==
    {ToolExecutionStart, MessageEnd("assistant", "", <<"ok">>),
     MessageEnd("assistant", "overloaded", <<>>)}

\* onUpdate is called when the listener is there and the close handler has
\* not run
EmitsUpdate(listener, processClosed) == listener /\ ~processClosed

\* scheduleUpdate(); due tells that 50 ms have passed since the last update
ScheduleSettle(th, processClosed, due) ==
    IF ~EmitsUpdate(seListener, processClosed) THEN th
    ELSE IF due
    THEN [th EXCEPT !.pendingTimer = FALSE, !.updatePending = FALSE, !.emits = @ + 1]
    ELSE IF ~th.updatePending
    THEN [th EXCEPT !.updatePending = TRUE, !.pendingTimer = TRUE]
    ELSE th

\* The scheduleUpdate() that processLine ends with: a tool start sets
\* lastUpdateTime = 0 first, a line that is no known event calls nothing
ScheduleAfterLine(th, processClosed, evt, due) ==
    IF evt.type = "tool_execution_start" THEN ScheduleSettle(th, processClosed, TRUE)
    ELSE IF evt.type \in {"tool_execution_end", "message_end", "tool_result_end"}
    THEN ScheduleSettle(th, processClosed, due)
    ELSE th

SettleIdle ==
    /\ seListener = FALSE
    /\ seState = [error |-> <<>>, lastToolError |-> NoToolError, finalOutputText |-> <<>>,
                  turns |-> 0, toolCount |-> 0, currentTool |-> "", recentTools |-> <<>>,
                  recentOutput |-> <<>>]
    /\ seExitCode = 0
    /\ seStatus = "running"
    /\ seThrottle = [updatePending |-> FALSE, pendingTimer |-> FALSE, emits |-> 0]
    /\ seProcessClosed = FALSE
    /\ seResolved = "returned"
    /\ seCode = 0
    /\ seReturned = TRUE
    /\ seFrozen = <<>>
    /\ seErrored = FALSE
    /\ seChunks = 0

\* runSync after the spawn: exitCode 0, status running, nothing emitted
InitSettle ==
    /\ seListener \in BOOLEAN
    /\ seState = [error |-> <<>>, lastToolError |-> NoToolError, finalOutputText |-> <<>>,
                  turns |-> 0, toolCount |-> 0, currentTool |-> "", recentTools |-> <<>>,
                  recentOutput |-> <<>>]
    /\ seExitCode = 0
    /\ seStatus = "running"
    /\ seThrottle = [updatePending |-> FALSE, pendingTimer |-> FALSE, emits |-> 0]
    /\ seProcessClosed = FALSE
    /\ seResolved = "none"
    /\ seCode = 0
    /\ seReturned = FALSE
    /\ seFrozen = <<>>
    /\ seErrored = FALSE
    /\ seChunks = 0

\* proc.stdout.on("data") with one complete line; stdout delivers nothing
\* once the process has closed
SettleData(evt, due) ==
    /\ ~seProcessClosed
    /\ seChunks < MaxSettleChunks
    /\ seChunks' = seChunks + 1
    /\ seState' = processLine(seState, evt)
    /\ LET afterLine == ScheduleAfterLine(seThrottle, seProcessClosed, evt, due)
       IN  seThrottle' = ScheduleSettle(afterLine, seProcessClosed,
                                        due /\ afterLine.emits = seThrottle.emits)
    /\ UNCHANGED <<nonSettleVars, seListener, seExitCode, seStatus, seProcessClosed,
                   seResolved, seCode, seReturned, seFrozen, seErrored>>

\* The callback of the pending timer
SettleTimerFires ==
    /\ seThrottle.pendingTimer
    /\ seThrottle' =
           IF seThrottle.updatePending /\ EmitsUpdate(TRUE, seProcessClosed)
           THEN [seThrottle EXCEPT !.pendingTimer = FALSE, !.updatePending = FALSE,
                                   !.emits = @ + 1]
           ELSE [seThrottle EXCEPT !.pendingTimer = FALSE]
    /\ UNCHANGED <<nonSettleVars, seListener, seState, seExitCode, seStatus,
                   seProcessClosed, seResolved, seCode, seReturned, seFrozen, seErrored,
                   seChunks>>

\* proc.on("close"): the timer is cleared, the rest of the buffer is
\* processed, stderr becomes the error of a non-zero exit, resolve(code ?? 0)
SettleClose(hasCode, code, stderr, tail) ==
    /\ ~seProcessClosed
    /\ seProcessClosed' = TRUE
    /\ LET st == IF tail # NoLine THEN processLine(seState, tail) ELSE seState
       IN  seState' = [st EXCEPT !.error =
                           IF ~(hasCode /\ code = 0) /\ stderr # <<>> /\ st.error = <<>>
                           THEN stderr ELSE @]
    /\ LET cleared == [seThrottle EXCEPT !.pendingTimer = FALSE]
       IN  seThrottle' = IF tail # NoLine
                         THEN ScheduleAfterLine(cleared, TRUE, tail, TRUE)
                         ELSE cleared
    /\ IF seResolved = "none"
       THEN /\ seResolved' = "close"
            /\ seCode' = IF hasCode THEN code ELSE 0
       ELSE UNCHANGED <<seResolved, seCode>>
    /\ UNCHANGED <<nonSettleVars, seListener, seExitCode, seStatus, seReturned, seFrozen,
                   seErrored, seChunks>>

\* proc.on("error", () => resolve(1))
SettleError ==
    /\ ~seErrored
    /\ seErrored' = TRUE
    /\ IF seResolved = "none"
       THEN /\ seResolved' = "error"
            /\ seCode' = 1
       ELSE UNCHANGED <<seResolved, seCode>>
    /\ UNCHANGED <<nonSettleVars, seListener, seState, seExitCode, seStatus, seThrottle,
                   seProcessClosed, seReturned, seFrozen, seChunks>>

\* After the promise: the exit code, the override of a clean exit by the last
\* tool error, the status, and the return of the result
SettleReturn ==
    /\ seResolved # "none"
    /\ ~seReturned
    /\ seReturned' = TRUE
    /\ LET promoted == seCode = 0 /\ seState.error = <<>>
                       /\ seState.lastToolError # NoToolError
           exitCode == IF promoted THEN OverrideExitCode(seState.lastToolError)
                       ELSE seCode
           st == IF promoted
                 THEN [seState EXCEPT !.error =
                          <<seState.lastToolError.toolName, " failed">>]
                 ELSE seState
           status == IF exitCode = 0 THEN "completed" ELSE "failed"
       IN  /\ seExitCode' = exitCode
           /\ seState' = st
           /\ seStatus' = status
           /\ seFrozen' = <<[state |-> st, exitCode |-> exitCode, status |-> status,
                             emits |-> seThrottle.emits]>>
    /\ UNCHANGED <<nonSettleVars, seListener, seThrottle, seProcessClosed, seResolved,
                   seCode, seErrored, seChunks>>

NextSettle ==
    \/ \E evt \in SettleEvents, due \in BOOLEAN : SettleData(evt, due)
    \/ SettleTimerFires
    \/ \E hasCode \in BOOLEAN, code \in {0, 1}, stderr \in {<<>>, <<"stderr">>},
          tail \in {NoLine, ToolExecutionStart} :
          SettleClose(hasCode, code, stderr, tail)
    \/ SettleError
    \/ SettleReturn

-----------------------------------------------------------------------------
(* executeChain with a cancellation signal: sequential steps only *)

NoWorker == [alive |-> FALSE, signalled |-> FALSE]

\* resolve(code ?? 0): a process ended by a signal has no exit code
ResolvedCode(hasCode, code) == IF hasCode THEN code ELSE 0

CancelIdle ==
    /\ ccStep = 0
    /\ ccPhase = "completed"
    /\ ccAborted = FALSE
    /\ ccWorker = NoWorker
    /\ ccSpawned = <<>>
    /\ ccResults = <<>>

\* The step loop is about to run its first step; the signal is not aborted
InitCancel ==
    /\ ccStep = 1
    /\ ccPhase = "ready"
    /\ ccAborted = FALSE
    /\ ccWorker = NoWorker
    /\ ccSpawned = <<>>
    /\ ccResults = <<>>

\* The step loop calls runSync with the signal: the worker is spawned, and
\* kill() sends SIGTERM at once when the signal is already aborted
CancelSpawn ==
    /\ ccPhase = "ready"
    /\ ccPhase' = "running"
    /\ ccWorker' = [alive |-> TRUE, signalled |-> ccAborted]
    /\ ccSpawned' = Append(ccSpawned, [step |-> ccStep, afterAbort |-> ccAborted])
    /\ UNCHANGED <<nonCancelVars, ccStep, ccAborted, ccResults>>

\* The caller aborts the signal during the run: the abort listener of the
\* worker in flight sends SIGTERM
CancelAbort ==
    /\ ccPhase \in {"ready", "running"}
    /\ ~ccAborted
    /\ ccAborted' = TRUE
    /\ ccWorker' = IF ccWorker.alive THEN [ccWorker EXCEPT !.signalled = TRUE] ELSE ccWorker
    /\ UNCHANGED <<nonCancelVars, ccStep, ccPhase, ccSpawned, ccResults>>

\* The worker closes: with an exit code of its own, or with none when the
\* signal ended it.  runSync returns, the result is pushed, and the step loop
\* returns on a non-zero exit code or goes on to the next step
CancelWorkerClose(hasCode, code) ==
    /\ ccPhase = "running"
    /\ ~hasCode => ccWorker.signalled /\ code = 0
    /\ LET exitCode == ResolvedCode(hasCode, code)
       IN  /\ ccResults' = Append(ccResults, [step |-> ccStep, exitCode |-> exitCode,
                                              killedBySignal |-> ~hasCode])
           /\ IF exitCode # 0
              THEN /\ ccPhase' = "failed"
                   /\ ccStep' = ccStep
              ELSE /\ ccPhase' = IF ccStep = MaxCancelSteps THEN "completed" ELSE "ready"
                   /\ ccStep' = IF ccStep = MaxCancelSteps THEN ccStep ELSE ccStep + 1
    /\ ccWorker' = NoWorker
    /\ UNCHANGED <<nonCancelVars, ccAborted, ccSpawned>>

NextCancel ==
    \/ CancelSpawn
    \/ CancelAbort
    \/ \E hasCode \in BOOLEAN, code \in {0, 1} : CancelWorkerClose(hasCode, code)

-----------------------------------------------------------------------------
(* resolveParallelBehaviors with output overrides, and createParallelDirs *)

\* task.output: undefined, false, a relative path or an absolute one.  The
\* relative path has the file name of agent a's default
NoOutputOverride == [given |-> FALSE, value |-> ""]

OutputOverrides ==
    {NoOutputOverride}
    \cup {[given |-> TRUE, value |-> v] : v \in {FalseOutput, "a.md"} \cup AbsolutePaths}

\* The tasks of the groups: agent a, whose default output is a.md, with every
\* override; agent b, which has no default, with none or a relative one
PathTasks ==
    {[agent |-> "a", output |-> o] : o \in OutputOverrides}
    \cup {[agent |-> "b", output |-> o] :
             o \in {NoOutputOverride, [given |-> TRUE, value |-> "a.md"]}}

RECURSIVE PathGroupsUpTo(_)
PathGroupsUpTo(n) ==
    IF n = 0 THEN {<<>>}
    ELSE LET shorter == PathGroupsUpTo(n - 1)
         IN  shorter \cup {Append(g, t) : g \in shorter, t \in PathTasks}

PathGroups == PathGroupsUpTo(MaxPathTasks) \ {<<>>}

\* Variant: a relative override is used as it is
ResolveParallelOutputMut(override, config, subdir) ==
    IF override.given
    THEN override.value
    ELSE IF config.hasOutput /\ config.output # "" THEN subdir \o "/" \o config.output
    ELSE FalseOutput

\* Output: task override > agent default (namespaced) > false
ResolveParallelOutput(override, config, subdir) ==
    IF override.given
    THEN IF override.value = FalseOutput THEN FalseOutput
         ELSE IF isAbsolute(override.value) THEN override.value
         ELSE subdir \o "/" \o override.value
    ELSE IF config.hasOutput /\ config.output # "" THEN subdir \o "/" \o config.output
    ELSE FalseOutput

\* The outputs that resolveParallelBehaviors gives the tasks of step s
ParallelOutputs(tasks, s) ==
    [j \in 1..Len(tasks) |->
        ResolveParallelOutput(tasks[j].output, AgentConfig(tasks[j].agent),
                              ParallelSubdir(s, j, tasks[j].agent))]

PathsIdle ==
    /\ ppChain = <<>>
    /\ ppNext = 1
    /\ ppDirs = {}
    /\ ppBehaviors = <<>>

\* A chain of two groups, none resolved yet
InitPaths ==
    /\ ppChain \in {<<g1, g2>> : g1 \in PathGroups, g2 \in PathGroups}
    /\ ppNext = 1
    /\ ppDirs = {}
    /\ ppBehaviors = <<>>

\* executeChain at a group: createParallelDirs, then resolveParallelBehaviors
PathsResolveGroup ==
    /\ ppNext <= Len(ppChain)
    /\ ppDirs' = ppDirs \cup createParallelDirs(ppNext, getStepAgents(
                                  ParallelStep(ppChain[ppNext], 1, FALSE)))
    /\ ppBehaviors' = Append(ppBehaviors, ParallelOutputs(ppChain[ppNext], ppNext))
    /\ ppNext' = ppNext + 1
    /\ UNCHANGED <<nonPathsVars, ppChain>>

NextPaths == PathsResolveGroup

-----------------------------------------------------------------------------
(* The specifications *)

\* No chain is run
ChainIdle ==
    /\ chain = <<>>
    /\ uiClarify = FALSE
    /\ pc = "none"
    /\ stepIndex = 1
    /\ templates = <<>>
    /\ results = <<>>
    /\ prev = <<>>
    /\ globalTaskIndex = 0
    /\ progressCreated = FALSE
    /\ chainDirExists = FALSE
    /\ parallelDirs = {}
    /\ progressWrites = <<>>
    /\ ret = Pending
    /\ next = 1
    /\ aborted = FALSE
    /\ parallelResults = <<>>
    /\ inflight = {}
    /\ spawned = <<>>
    /\ returned = {}

\* A chain run
Init == InitChain /\ MapIdle /\ RunIdle /\ WriterIdle /\ PureIdle /\ AsyncIdle /\ BufIdle /\ ThrottleIdle /\ RetainIdle /\ SettleIdle /\ CancelIdle /\ PathsIdle

Next == NextChain

Spec == Init /\ [][Next]_vars

\* A mapConcurrent call with an arbitrary callback
InitMapOnly == InitMap /\ ChainIdle /\ RunIdle /\ WriterIdle /\ PureIdle /\ AsyncIdle /\ BufIdle /\ ThrottleIdle /\ RetainIdle /\ SettleIdle /\ CancelIdle /\ PathsIdle

SpecMap == InitMapOnly /\ [][NextMap]_vars

\* A runSync call with an arbitrary worker process
InitRunOnly == InitRun /\ ChainIdle /\ MapIdle /\ WriterIdle /\ PureIdle /\ AsyncIdle /\ BufIdle /\ ThrottleIdle /\ RetainIdle /\ SettleIdle /\ CancelIdle /\ PathsIdle

SpecRun == InitRunOnly /\ [][NextRun]_vars

\* A runSync call with a cancellation signal, aborted already or later
InitKill ==
    /\ ChainIdle /\ MapIdle /\ WriterIdle /\ PureIdle /\ AsyncIdle /\ BufIdle /\ ThrottleIdle /\ RetainIdle /\ SettleIdle /\ CancelIdle /\ PathsIdle
    /\ rsPhase = "idle"
    /\ rsCode = 0
    /\ rsExitCode = 0
    /\ rsError = <<>>
    /\ rsLastToolError = NoToolError
    /\ rsFinalOutputText = <<>>
    /\ rsTurns = 0
    /\ rsEvents = <<>>
    /\ rsExitedZero = FALSE
    /\ rsHasSignal = TRUE
    /\ rsAborted \in BOOLEAN
    /\ rsListener = FALSE
    /\ rsKilled = FALSE
    /\ rsKillTimer = "none"
    /\ rsSignals = <<>>
    /\ rsAliveAtExpiry = FALSE
    /\ rsToolCount = 0
    /\ rsCurrentTool = ""
    /\ rsRecentTools = <<>>
    /\ rsRecentOutput = <<>>

SpecKill == InitKill /\ [][NextKill]_vars

\* A runSync call of a worker that writes many lines
SpecRing == InitRunOnly /\ [][NextRing]_vars

\* A JSONL writer with arbitrary calls and an arbitrary sink
InitWriterOnly == InitWriter /\ ChainIdle /\ MapIdle /\ RunIdle /\ PureIdle /\ AsyncIdle /\ BufIdle /\ ThrottleIdle /\ RetainIdle /\ SettleIdle /\ CancelIdle /\ PathsIdle

SpecWriter == InitWriterOnly /\ [][NextWriter]_vars

\* The pure functions on every input within the bounds
InitPureOnly == InitPure /\ ChainIdle /\ MapIdle /\ RunIdle /\ WriterIdle /\ AsyncIdle /\ BufIdle /\ ThrottleIdle /\ RetainIdle /\ SettleIdle /\ CancelIdle /\ PathsIdle

SpecPure == InitPureOnly /\ [][NextPure]_vars

\* A background run of every chain within the bounds
InitAsyncOnly ==
    InitAsync /\ ChainIdle /\ MapIdle /\ RunIdle /\ WriterIdle /\ PureIdle /\ BufIdle /\ ThrottleIdle /\ RetainIdle /\ SettleIdle /\ CancelIdle /\ PathsIdle

SpecAsync == InitAsyncOnly /\ [][NextAsync]_vars

\* The stdout of one worker, every stream and every cutting within the bounds
InitBufOnly ==
    /\ InitBuf /\ ChainIdle /\ MapIdle /\ RunIdle /\ WriterIdle /\ PureIdle /\ AsyncIdle
    /\ ThrottleIdle /\ RetainIdle /\ SettleIdle /\ CancelIdle /\ PathsIdle

SpecBuf == InitBufOnly /\ [][NextBuf]_vars

\* The progress updates of one worker, with and without a listener
InitThrottleOnly ==
    /\ InitThrottle
    /\ ChainIdle /\ MapIdle /\ RunIdle /\ WriterIdle /\ PureIdle /\ AsyncIdle /\ BufIdle
    /\ RetainIdle /\ SettleIdle /\ CancelIdle /\ PathsIdle

SpecThrottle == InitThrottleOnly /\ [][NextThrottle]_vars

\* Chain runs that differ in which steps need the progress file
InitProgress ==
    /\ InitProgressChain
    /\ MapIdle /\ RunIdle /\ WriterIdle /\ PureIdle /\ AsyncIdle /\ BufIdle /\ ThrottleIdle /\ RetainIdle /\ SettleIdle /\ CancelIdle /\ PathsIdle

SpecProgress == InitProgress /\ [][NextChain]_vars

\* The same, where time passes and the event loop runs the timers that are due
SpecThrottleLive ==
    /\ InitThrottleOnly
    /\ [][NextThrottle]_vars
    /\ WF_vars(ThrottleTick)
    /\ WF_vars(\E id \in 1..MaxTimerId : ThrottleTimerFires(id))

\* What a worker run retains, for either runSync
InitRetainOnly ==
    /\ InitRetain
    /\ ChainIdle /\ MapIdle /\ RunIdle /\ WriterIdle /\ PureIdle /\ AsyncIdle /\ BufIdle
    /\ ThrottleIdle /\ SettleIdle /\ CancelIdle /\ PathsIdle

SpecRetain == InitRetainOnly /\ [][NextRetain]_vars

\* One runSync call with every order of the events of its child
InitSettleOnly ==
    /\ InitSettle
    /\ ChainIdle /\ MapIdle /\ RunIdle /\ WriterIdle /\ PureIdle /\ AsyncIdle /\ BufIdle
    /\ ThrottleIdle /\ RetainIdle /\ CancelIdle /\ PathsIdle

SpecSettle == InitSettleOnly /\ [][NextSettle]_vars

\* A chain of sequential steps whose signal is aborted at any point of the run
InitCancelOnly ==
    /\ InitCancel
    /\ ChainIdle /\ MapIdle /\ RunIdle /\ WriterIdle /\ PureIdle /\ AsyncIdle /\ BufIdle
    /\ ThrottleIdle /\ RetainIdle /\ SettleIdle /\ PathsIdle

SpecCancel == InitCancelOnly /\ [][NextCancel]_vars

\* The output paths of two groups, for every choice of overrides
InitPathsOnly ==
    /\ InitPaths
    /\ ChainIdle /\ MapIdle /\ RunIdle /\ WriterIdle /\ PureIdle /\ AsyncIdle /\ BufIdle
    /\ ThrottleIdle /\ RetainIdle /\ SettleIdle /\ CancelIdle

SpecPaths == InitPathsOnly /\ [][NextPaths]_vars

-----------------------------------------------------------------------------
(* C5 *)

\* C5: mapConcurrent resolves to an array whose element i is the value that
\* fn(items[i], i) produced, in whatever order the callbacks complete.
C5_ResultsByIndex ==
    mcState = "resolved"
    => /\ Len(mcResults) = Len(mcItems)
       /\ \A i \in 1..Len(mcItems) :
             /\ mcResults[i] = mcProduced[i]
             /\ mcResults[i].item = mcItems[i]
             /\ mcResults[i].index = i

\* Three items, two at a time, resolved with different values for the first
\* two items (so the order of completion could have shown)
C5_Witness ==
    /\ mcState = "resolved"
    /\ Len(mcItems) = 3
    /\ mcLimit = 2
    /\ mcResults[1].v # mcResults[2].v

-----------------------------------------------------------------------------
(* C6 *)

\* C6: with limit >= 1, the callbacks started and not yet settled are never
\* more than limit, and when the call resolves none is running.
C6_AtMostLimitInFlight ==
    /\ Cardinality(mcInflight) <= mcLimit
    /\ mcState = "resolved" => mcInflight = {}

\* Three items, two at a time: the first callback has settled and the third
\* has started in its place, so the limit is reached again
C6_Witness ==
    /\ mcState = "running"
    /\ Len(mcItems) = 3
    /\ mcLimit = 2
    /\ mcInflight = {2, 3}

-----------------------------------------------------------------------------
(* C8 *)

\* C8: if a callback throws, the promise of mapConcurrent is rejected with
\* that error (the first one thrown); it is never resolved, and the error
\* is not turned into a result.
C8_ErrorsPropagate ==
    mcThrown # <<>>
    => /\ mcState = "rejected"
       /\ mcError = mcThrown[1]
       /\ \A i \in 1..Len(mcResults) : mcResults[i] = mcProduced[i]

\* The second of three callbacks threw after the first had resolved
C8_Witness ==
    /\ mcThrown # <<>>
    /\ Len(mcItems) = 3
    /\ mcProduced[1] # NoValue
    /\ mcProduced[2] = NoValue
    /\ 2 \notin mcInflight
    /\ mcNext > 2

-----------------------------------------------------------------------------
(* C9 *)

\* A tool result marked as an error, or a bash result reporting a non-zero exit
IsErrorResult(e) ==
    /\ e.type = "tool_result_end"
    /\ \/ e.isError
       \/ e.toolName = "bash" /\ parseExitCode(e.text) \notin {Undefined, 0}

IsSuccessfulResult(e) == e.type = "tool_result_end" /\ ~IsErrorResult(e)

\* An error tool result with no successful tool result after it
HiddenFailure(log) ==
    \E k \in 1..Len(log) :
        /\ IsErrorResult(log[k])
        /\ \A j \in (k + 1)..Len(log) : ~IsSuccessfulResult(log[j])

\* C9: if the worker process exited with code 0 and wrote a tool result marked
\* as an error (or a bash tool result reporting a non-zero exit) with no
\* successful tool result after it, the final result has a non-zero exit
\* code, whatever other events the worker wrote.
C9_HiddenFailureIsNonZero ==
    (rsPhase = "done" /\ rsExitedZero /\ HiddenFailure(rsEvents)) => rsExitCode # 0

\* The same, for workers that wrote no error message in a message_end event
\* and whose failed tool result does not itself report exit code 0
C9_HiddenFailureWhenNothingElseWentWrong ==
    (/\ rsPhase = "done"
     /\ rsExitedZero
     /\ HiddenFailure(rsEvents)
     /\ \A k \in 1..Len(rsEvents) :
           /\ rsEvents[k].errorMessage = ""
           /\ (rsEvents[k].type = "tool_result_end" /\ rsEvents[k].toolName = "bash")
                 => parseExitCode(rsEvents[k].text) # 0)
    => rsExitCode # 0

\* The hidden failure is followed by an assistant message that reports an error
C9_MaskedByErrorMessage ==
    (/\ rsPhase = "done"
     /\ rsExitedZero
     /\ HiddenFailure(rsEvents)
     /\ \A k \in 1..Len(rsEvents) :
           (rsEvents[k].type = "tool_result_end" /\ rsEvents[k].toolName = "bash")
              => parseExitCode(rsEvents[k].text) # 0)
    => rsExitCode # 0

-----------------------------------------------------------------------------
(* C11 *)

\* Step s ran to its end without a failure, by what its callbacks returned
StepSucceeded(s) ==
    /\ StepReturned(s)
    /\ \A j \in 1..Len(StepResults(s)) : StepResults(s)[j].exitCode = 0

\* The first step that did not run to its end without a failure
FailingStep ==
    CHOOSE s \in 1..Len(chain) :
        /\ ~StepSucceeded(s)
        /\ \A m \in 1..(s - 1) : StepSucceeded(m)

ErrorReturnedAfterAStep ==
    /\ pc = "done"
    /\ ret.kind = "returned"
    /\ ret.isError
    /\ StepSucceeded(1)

\* C11: every error result that executeChain returns after at least one step
\* has completed carries the zero-based index of the failing step and the
\* results of the steps completed before it, and the chain directory still
\* exists.
C11_ErrorResultCarriesIndexAndResults ==
    ErrorReturnedAfterAStep
    => /\ ret.currentStepIndex = FailingStep - 1
       /\ Len(ret.results) >= Len(ResultsUpTo(FailingStep - 1))
       /\ SubSeq(ret.results, 1, Len(ResultsUpTo(FailingStep - 1)))
             = ResultsUpTo(FailingStep - 1)
       /\ chainDirExists

\* The same, for the error results of a step whose worker failed
C11_WorkerFailureCarriesIndexAndResults ==
    (ErrorReturnedAfterAStep /\ StepReturned(FailingStep))
    => /\ ret.currentStepIndex = FailingStep - 1
       /\ SubSeq(ret.results, 1, Len(ResultsUpTo(FailingStep - 1)))
             = ResultsUpTo(FailingStep - 1)
       /\ chainDirExists

-----------------------------------------------------------------------------
(* C12 *)

ChainNamesUnknown == \E s \in 1..Len(chain) : StepNamesUnknown(s)

\* C12: for any chain in which some step, sequential or a task of a parallel
\* group, names an agent that is not in the registry, executeChain resolves
\* (does not throw) to a result with isError set whose text contains
\* "Unknown agent".
C12_UnknownAgentResolvesToError ==
    (pc = "done" /\ ChainNamesUnknown)
    => /\ ret.kind = "returned"
       /\ ret.isError
       /\ ret.text[1][1] = "Unknown agent: "

\* The same, for a sequential step that executeChain reaches
C12_ReachedSequentialUnknownIsReported ==
    (/\ pc = "done"
     /\ stepIndex <= Len(chain)
     /\ ~isParallelStep(chain[stepIndex])
     /\ StepNamesUnknown(stepIndex)
     /\ \A m \in 1..(stepIndex - 1) : StepSucceeded(m))
    => /\ ret.kind = "returned"
       /\ ret.isError
       /\ ret.text[1][1] = "Unknown agent: "

\* executeChain reached a parallel group that names an unknown agent
C12_ReachedGroupUnknownThrows ==
    (/\ pc = "done"
     /\ stepIndex <= Len(chain)
     /\ isParallelStep(chain[stepIndex])
     /\ StepNamesUnknown(stepIndex)
     /\ \A m \in 1..(stepIndex - 1) : StepSucceeded(m))
    => ret.kind = "thrown"

-----------------------------------------------------------------------------
(* C13 *)

\* C13: when the cancellation signal fires while a task runs (or is already
\* aborted when the task starts), the worker is sent the terminate signal at
\* once, and if the worker is still alive 3 seconds later it is sent the
\* force-kill signal.
C13_TerminateThenForceKill ==
    /\ (rsAborted /\ rsPhase = "running") => rsSignals[1] = "SIGTERM"
    /\ (rsKillTimer = "fired" /\ rsAliveAtExpiry)
          => (Len(rsSignals) = 2 /\ rsSignals[2] = "SIGKILL")

\* The first half: the terminate signal is sent at once, and the timer set
C13_TerminateAtOnce ==
    (rsAborted /\ rsPhase = "running")
    => (rsSignals[1] = "SIGTERM" /\ rsKillTimer # "none")

\* No worker is ever sent the force-kill signal
C13_NeverForceKilled == \A k \in 1..Len(rsSignals) : rsSignals[k] # "SIGKILL"

-----------------------------------------------------------------------------
(* C14 *)

\* C14: after processing any sequence of worker events, recentOutput holds
\* at most 50 lines and recentTools at most 5 entries.
C14_RingsWithinCaps ==
    /\ Len(rsRecentOutput) <= RecentOutputCap
    /\ Len(rsRecentTools) <= RecentToolsCap

\* Six tool calls ended and sixty lines came in: both rings are full, and
\* the output ring ends with the last line received
C14_Witness ==
    /\ rsToolCount = 6
    /\ rsCurrentTool = ""
    /\ Len(rsRecentTools) = RecentToolsCap
    /\ Len(rsRecentOutput) = RecentOutputCap
    /\ rsRecentOutput[RecentOutputCap] = <<"l12">>
    /\ rsRecentOutput[1] = <<"l3">>

-----------------------------------------------------------------------------
(* C15 *)

\* C15: for a JSONL writer created with a destination, any number of close
\* calls, one after the other or overlapping, end the sink exactly once.
C15_SinkEndedOnce ==
    /\ jwEnds <= 1
    /\ (jwStream # "noop" /\ jwCloseCalls >= 1) => jwEnds = 1
    /\ jwStream = "noop" => jwEnds = 0

\* Three close calls, the later ones while the first still waits for the
\* callback of end
C15_Witness ==
    /\ jwStream = "unset"
    /\ jwCloseCalls = 3
    /\ jwEndPending
    /\ jwEnds = 1

-----------------------------------------------------------------------------
(* C16 *)

\* C16: over any sequence of writeLine, drain and close events the writer
\* never pauses a source it has already paused: pause calls minus resume
\* calls is 0 or 1.
C16_NoDoublePause == jwPauses - jwResumes \in {0, 1}

\* The sink refused two writes before its drain, and a third after it
C16_Witness ==
    /\ jwPauses = 2
    /\ jwResumes = 1
    /\ jwSinkWrites = 3

-----------------------------------------------------------------------------
(* C17 *)

PausedByWriter == jwPauses > jwResumes

\* C17: a source paused by the writer is resumed when, and not before, the
\* sink signals drain; it does not stay paused after the drain signal.
C17_ResumedExactlyOnDrain ==
    /\ jwResumes <= jwDrains
    /\ ~(PausedByWriter /\ jwDrainSincePause)

\* The same, while the writer is not closed
C17_ResumedOnDrainWhileOpen ==
    /\ jwResumes <= jwDrains
    /\ ~jwClosed => ~(PausedByWriter /\ jwDrainSincePause)

-----------------------------------------------------------------------------
(* C18 *)

\* C18: resolveStepBehavior gives each of output, reads and progress the
\* step override when one is given, an explicit false included, otherwise
\* the agent's default, otherwise false; each field from its own inputs only.
C18_OverrideThenDefaultThenDisabled ==
    "resolveStepBehavior" \in pfDone =>
        /\ pfOverrides.hasOutput => pfBehavior.output = pfOverrides.output
        /\ (~pfOverrides.hasOutput /\ pfConfig.hasOutput) =>
               pfBehavior.output = pfConfig.output
        /\ (~pfOverrides.hasOutput /\ ~pfConfig.hasOutput) =>
               pfBehavior.output = FalseOutput
        /\ pfOverrides.hasReads => pfBehavior.reads = pfOverrides.reads
        /\ (~pfOverrides.hasReads /\ pfConfig.hasReads) =>
               pfBehavior.reads = pfConfig.defaultReads
        /\ (~pfOverrides.hasReads /\ ~pfConfig.hasReads) =>
               pfBehavior.reads = FalseReads
        /\ pfOverrides.hasProgress => pfBehavior.progress = pfOverrides.progress
        /\ (~pfOverrides.hasProgress /\ pfConfig.hasProgress) =>
               pfBehavior.progress = pfConfig.defaultProgress
        /\ (~pfOverrides.hasProgress /\ ~pfConfig.hasProgress) =>
               pfBehavior.progress = FALSE

\* output switched off by the step against the agent's file, reads from the
\* agent's default, progress from neither
C18_Witness ==
    /\ "resolveStepBehavior" \in pfDone
    /\ pfOverrides.hasOutput /\ pfOverrides.output = FalseOutput
    /\ pfConfig.hasOutput /\ pfConfig.output = "a.md"
    /\ pfBehavior.output = FalseOutput
    /\ ~pfOverrides.hasReads /\ pfConfig.hasReads
    /\ pfBehavior.reads = <<"ctx.md">>
    /\ ~pfOverrides.hasProgress /\ ~pfConfig.hasProgress
    /\ pfBehavior.progress = FALSE

-----------------------------------------------------------------------------
(* C19 *)

\* C19: template resolution returns the inline task of a step or group task
\* that has one; without one a sequential step gets {task} at the first
\* position of the chain and {previous} at any later one, and a group task
\* gets {previous} at every position, the first included.
C19_TemplateDefaults ==
    "resolveChainTemplates" \in pfDone =>
        /\ Len(pfTemplates) = Len(pfSteps)
        /\ \A i \in 1..Len(pfSteps) :
              IF isParallelStep(pfSteps[i])
              THEN /\ Len(pfTemplates[i]) = Len(pfSteps[i].parallel)
                   /\ \A j \in 1..Len(pfSteps[i].parallel) :
                         pfTemplates[i][j] =
                             IF pfSteps[i].parallel[j].task # NoTask
                             THEN pfSteps[i].parallel[j].task
                             ELSE <<"{previous}">>
              ELSE pfTemplates[i] =
                       IF pfSteps[i].task # NoTask THEN pfSteps[i].task
                       ELSE IF i = 1 THEN <<"{task}">> ELSE <<"{previous}">>

\* A chain that begins with a group: one task without and one with an
\* inline task, followed by a sequential step without one
C19_Witness ==
    /\ "resolveChainTemplates" \in pfDone
    /\ Len(pfSteps) = 2
    /\ isParallelStep(pfSteps[1])
    /\ Len(pfSteps[1].parallel) = 2
    /\ pfSteps[1].parallel[1].task = NoTask
    /\ pfSteps[1].parallel[2].task = GroupTask
    /\ ~isParallelStep(pfSteps[2])
    /\ pfSteps[2].task = NoTask
    /\ pfTemplates = << <<(<<"{previous}">>), GroupTask>>, <<"{previous}">> >>

\* A chain whose first step is sequential and has no inline task
C19_FirstSequentialGetsTask ==
    ("resolveChainTemplates" \in pfDone /\ pfSteps # <<>>
        /\ ~isParallelStep(pfSteps[1]) /\ pfSteps[1].task = NoTask)
    => pfTemplates[1] = <<"{task}">>

-----------------------------------------------------------------------------
(* C20 *)

\* Leaf tasks of the steps before position i
RECURSIVE LeavesBefore(_, _)
LeavesBefore(steps, i) ==
    IF i <= 1 THEN 0
    ELSE LeavesBefore(steps, i - 1) + getStepTaskCount(steps[i - 1])

\* C20: flattening a chain yields exactly its leaf tasks in chain order: a
\* sequential step contributes itself, a group its tasks in task order, an
\* empty group nothing; the length is 1 per sequential step plus the task
\* count of every group.
C20_FlatIsLeavesInOrder ==
    "flattenSteps" \in pfDone =>
        /\ Len(pfFlat) = LeavesBefore(pfSteps, Len(pfSteps) + 1)
        /\ \A i \in 1..Len(pfSteps) :
              IF isParallelStep(pfSteps[i])
              THEN \A j \in 1..Len(pfSteps[i].parallel) :
                       pfFlat[LeavesBefore(pfSteps, i) + j] = pfSteps[i].parallel[j]
              ELSE pfFlat[LeavesBefore(pfSteps, i) + 1] = pfSteps[i]

\* A sequential step, an empty group and a group of two different tasks
C20_Witness ==
    /\ "flattenSteps" \in pfDone
    /\ Len(pfSteps) = 3
    /\ ~isParallelStep(pfSteps[1])
    /\ isParallelStep(pfSteps[2]) /\ pfSteps[2].parallel = <<>>
    /\ isParallelStep(pfSteps[3]) /\ Len(pfSteps[3].parallel) = 2
    /\ pfSteps[3].parallel[1] # pfSteps[3].parallel[2]
    /\ pfFlat = <<pfSteps[1], pfSteps[3].parallel[1], pfSteps[3].parallel[2]>>

-----------------------------------------------------------------------------
(* C21 *)

ParallelHeader(rs, i) ==
    "=== Parallel Task " \o ToString(i) \o " (" \o rs[i].agent \o ") ==="

\* First position of a token in a text, 0 when it is not there
IndexOfToken(text, tok) ==
    IF \E k \in 1..Len(text) : text[k] = tok
    THEN CHOOSE k \in 1..Len(text) :
             text[k] = tok /\ \A m \in 1..(k - 1) : text[m] # tok
    ELSE 0

\* The tokens from the header of task i up to the header of the next task
SectionTokens(text, rs, i) ==
    LET from == IndexOfToken(text, ParallelHeader(rs, i))
        nxt == IF i < Len(rs)
               THEN IndexOfToken(text, ParallelHeader(rs, i + 1)) ELSE 0
        to == IF nxt > 0 THEN nxt - 1 ELSE Len(text)
    IN  IF from = 0 THEN {} ELSE {text[k] : k \in from..to}

FailureMarker(r) ==
    "FAILED (exit code " \o ToString(r.exitCode) \o ")"
        \o (IF r.error # "" THEN ": " \o r.error ELSE "")

FailureMarkers == {FailureMarker(r) : r \in TaskResultChoices}

EmptyMarker == "EMPTY OUTPUT"

\* C21: the aggregated parallel output has the header of every task; the
\* section of a task with a non-zero exit code, and no other section, has a
\* failure marker naming the exit code and the error text; the section of a
\* task with blank output and exit code 0 has the empty-output marker.
C21_SectionsCarryMarkers ==
    "aggregateParallelOutputs" \in pfDone =>
        \A i \in 1..Len(pfResults) :
            LET section == SectionTokens(pfAggregate, pfResults, i)
            IN  /\ ParallelHeader(pfResults, i) \in section
                /\ pfResults[i].exitCode # 0 => FailureMarker(pfResults[i]) \in section
                /\ pfResults[i].exitCode = 0 => section \cap FailureMarkers = {}
                /\ (pfResults[i].exitCode = 0 /\ Trim(pfResults[i].output) = <<>>)
                       => EmptyMarker \in section

\* The headers are there, in task order, each followed by the task's output
C21_EveryTaskHasItsHeader ==
    "aggregateParallelOutputs" \in pfDone =>
        \A i \in 1..Len(pfResults) :
            LET at == IndexOfToken(pfAggregate, ParallelHeader(pfResults, i))
            IN  /\ at > 0
                /\ \A j \in 1..(i - 1) :
                       IndexOfToken(pfAggregate, ParallelHeader(pfResults, j)) < at
                /\ SubSeq(pfAggregate, at + 2, at + 1 + Len(pfResults[i].output))
                       = pfResults[i].output

\* No marker of either kind is ever part of the aggregate
C21_NoMarkerWritten ==
    \A k \in 1..Len(pfAggregate) : pfAggregate[k] \notin FailureMarkers \cup {EmptyMarker}

-----------------------------------------------------------------------------
(* C22 *)

\* C22: in a background run the run record exists before any worker process
\* is started, and until the first worker is started it has one entry per
\* leaf task, in flattened order, every entry pending.
C22_RecordBeforeAnyWorker ==
    /\ arSpawned # {} => arStatus.exists
    /\ (arPc = "run" /\ arSpawned = {}) =>
          LET flat == flattenSteps(arChain)
          IN  /\ arStatus.exists
              /\ Len(arStatus.steps) = Len(flat)
              /\ \A k \in 1..Len(flat) :
                    /\ arStatus.steps[k].agent = flat[k].agent
                    /\ arStatus.steps[k].flatIndex = k - 1
                    /\ arStatus.steps[k].status = "pending"

\* A mixed chain has been accepted and no worker has been started yet
C22_Witness ==
    /\ arPc = "run"
    /\ arSpawned = {}
    /\ Len(arChain) = 2
    /\ ~isParallelStep(arChain[1])
    /\ isParallelStep(arChain[2]) /\ Len(arChain[2].parallel) = 2
    /\ arStatus.exists
    /\ Len(arStatus.steps) = 3

\* The record keeps one entry per leaf for the whole run
C22_RecordKeepsItsEntries ==
    arStatus.exists => Len(arStatus.steps) = Len(flattenSteps(arChain))

-----------------------------------------------------------------------------
(* C23 *)

\* C23: in a background run the raw output of the leaf with flat index n is
\* written to output-{n}.log only; no two leaves, tasks of one group that
\* run at the same time included, write to the same capture file, and no
\* shared output.log is written.
C23_OwnCaptureFile ==
    /\ \A w \in arWrites : w[2] = "output-" \o ToString(w[1]) \o ".log"
    /\ \A w1, w2 \in arWrites : w1[2] = w2[2] => w1[1] = w2[1]
    /\ "output.log" \notin arFiles
    /\ \A w \in arWrites : w[2] # "output.log"

\* Two tasks of one group are live together and both have written
C23_Witness ==
    /\ arStepIdx <= Len(arChain)
    /\ isParallelStep(arChain[arStepIdx])
    /\ Cardinality(arLive) = 2
    /\ \A n \in arLive : \E w \in arWrites : w[1] = n

-----------------------------------------------------------------------------
(* C24 *)

\* C24: in a chain run no worker process of a step is spawned before every
\* worker process of the steps before it has exited and its finalized result
\* has been returned to executeChain.
C24_StepsDoNotOverlap ==
    \A k \in 1..Len(spawned) : \A m \in 1..Len(spawned) :
        spawned[m].step < spawned[k].step =>
            /\ HasReturned(spawned[m].step, spawned[m].task)
            /\ spawned[m].step < stepIndex

\* A group of two ran its workers together and the step after it has its
\* worker
C24_Witness ==
    /\ Len(chain) = 2
    /\ isParallelStep(chain[1])
    /\ Len(chain[1].parallel) = 2
    /\ chain[1].concurrency = 2
    /\ WasSpawned(2, 0)
    /\ \A j \in 1..2 : WasSpawned(1, j) /\ HasReturned(1, j)

\* runSync resolves with the result of a spawned worker only from the state
\* in which the process has closed
C24_ResultOnlyAfterClose ==
    [][(rsPhase = "running" /\ rsPhase' # "running") => rsPhase' = "closed"]_vars

-----------------------------------------------------------------------------
(* C25 *)

IsFailedToolResult(e) ==
    /\ e.type = "tool_result_end"
    /\ \/ e.isError
       \/ e.toolName = "bash" /\ parseExitCode(e.text) \notin {Undefined, 0}

IsSuccessfulToolResult(e) == e.type = "tool_result_end" /\ ~IsFailedToolResult(e)

\* The last tool_result_end line was a successful one, after a failed one
ErrorThenSuccess ==
    \E i, j \in 1..Len(rsEvents) :
        /\ i < j
        /\ IsFailedToolResult(rsEvents[i])
        /\ IsSuccessfulToolResult(rsEvents[j])
        /\ \A k \in (j + 1)..Len(rsEvents) : rsEvents[k].type # "tool_result_end"

\* result.error is what the hidden-failure override writes
PromotedToolFailure(err) ==
    Len(err) >= 2 /\ err[2] \in {" failed (exit ", " failed with exit code "}

\* C25: a tool error recorded from a tool_result_end line is cleared by any
\* later successful tool_result_end line, so a worker that exits 0 after a
\* failed tool call followed by a successful one is reported with exit code
\* 0 and without a promoted tool failure.
C25_LaterSuccessClearsToolError ==
    ErrorThenSuccess =>
        /\ rsLastToolError = NoToolError
        /\ (rsPhase = "done" /\ rsExitedZero) =>
               (rsExitCode = 0 /\ ~PromotedToolFailure(rsError))

\* The worker failed a bash call, succeeded with another tool and exited 0
C25_Witness ==
    /\ rsPhase = "done"
    /\ rsExitedZero
    /\ Len(rsEvents) = 2
    /\ IsFailedToolResult(rsEvents[1])
    /\ rsEvents[1].toolName = "bash"
    /\ IsSuccessfulToolResult(rsEvents[2])
    /\ rsExitCode = 0
    /\ rsError = <<>>

-----------------------------------------------------------------------------
(* C26 *)

\* The TaskResult and ProgressRecord fields of a run that has seen no line
FreshRunState ==
    [error |-> <<>>, lastToolError |-> NoToolError, finalOutputText |-> <<>>,
     turns |-> 0, toolCount |-> 0, currentTool |-> "", recentTools |-> <<>>,
     recentOutput |-> <<>>]

WellFormedLines == SelectSeq(rsEvents, LAMBDA e : e.type # "malformed")

\* What the lines leave behind is what the well-formed ones alone leave
MalformedLinesLeaveNoTrace ==
    LET expected == ProcessLines(FreshRunState, WellFormedLines)
    IN  /\ rsLastToolError = expected.lastToolError
        /\ rsFinalOutputText = expected.finalOutputText
        /\ rsTurns = expected.turns
        /\ rsToolCount = expected.toolCount
        /\ rsCurrentTool = expected.currentTool
        /\ rsRecentTools = expected.recentTools
        /\ rsRecentOutput = expected.recentOutput
        /\ rsPhase = "running" => rsError = expected.error

-----------------------------------------------------------------------------
(* C27 *)

\* text.split("\n"): the segments between the newlines, at least one
RECURSIVE SplitOnNewline(_)
SplitOnNewline(text) ==
    LET idx == IndexOfNewline(text)
    IN  IF idx = 0 THEN <<text>>
        ELSE <<SubSeq(text, 1, idx - 1)>> \o SplitOnNewline(SubSeq(text, idx + 1, Len(text)))

\* The lines of a text: every terminated one, and the last fragment when it
\* is not blank
LinesOf(text, atEnd) ==
    LET parts == SplitOnNewline(text)
        terminated == SubSeq(parts, 1, Len(parts) - 1)
    IN  IF atEnd /\ ~IsBlankText(parts[Len(parts)]) THEN parts ELSE terminated

\* The lines of what the worker has written so far, decoded as one text
LinesOfStream ==
    LinesOf(DecodeChunk(SubSeq(sbStream, 1, sbPos)), sbClosed)

\* C27: however the stdout stream is cut into chunks, the lines handed to the
\* event handler are those of the whole stream split on newlines: a line
\* split across chunks is handed over once, whole, and a non-blank
\* unterminated final fragment once, at close.
C27_ChunkingDoesNotChangeLines ==
    /\ sbClosed => sbLines = LinesOfStream
    /\ (~sbClosed /\ (sbPos = 0 \/ sbStream[sbPos] # "C3")) => sbLines = LinesOfStream

\* The same, for the cuttings in which every chunk ends where a character ends
C27_WholeCharacterChunksKeepLines ==
    ~sbCutInChar => sbLines = LinesOfStream

\* A line was cut in two by a chunk boundary, an unterminated fragment
\* followed it, and the process has closed
C27_SplitLineAndFinalFragment ==
    /\ sbClosed
    /\ ~sbCutInChar
    /\ sbStream = <<"x", "x", "\n", "x">>
    /\ sbLines = <<(<<"x", "x">>), (<<"x">>)>>

\* A chunk ended between the two bytes of a character
C27_CutInsideCharacter ==
    /\ sbClosed
    /\ sbCutInChar
    /\ sbStream = <<"C3", "A9", "\n">>
    /\ sbLines = <<(<<ReplacementChar, ReplacementChar>>)>>

-----------------------------------------------------------------------------
(* C28 *)

\* The onUpdate calls of the run, in order
Emissions == SelectSeq(thLog, LAMBDA e : e.kind = "emit")

\* C28: two consecutive progress emissions of a task are at least 50 ms apart
\* unless the later one was forced by a tool_execution_start event, and at
\* most one delayed emission is scheduled at any time.
C28_EmissionsThrottled ==
    /\ \A i \in 2..Len(Emissions) :
          \/ Emissions[i].forced
          \/ Emissions[i].at - Emissions[i - 1].at >= UPDATE_THROTTLE_MS
    /\ Cardinality(thTimers) <= 1

\* A forced emission came less than 50 ms after its predecessor, a delayed one
\* came 50 ms after its predecessor, and another delayed one is scheduled
C28_Witness ==
    /\ \E i \in 2..Len(Emissions) :
          Emissions[i].forced /\ Emissions[i].at - Emissions[i - 1].at < UPDATE_THROTTLE_MS
    /\ \E i \in 2..Len(Emissions) :
          ~Emissions[i].forced /\ Emissions[i].at - Emissions[i - 1].at = UPDATE_THROTTLE_MS
    /\ Cardinality(thTimers) = 1
    /\ thUpdatePending

-----------------------------------------------------------------------------
(* C29 *)

\* C29: a progress update requested during the throttle window is never lost:
\* one delayed emission is scheduled for it, and an emission follows.
C29_PutOffUpdateIsSent ==
    /\ [](thUnserved => Cardinality(thTimers) = 1)
    /\ thUnserved ~> ~thUnserved

\* While the process has not closed, an update that was put off has its one
\* timer, and is sent unless the process closes first
C29_PutOffUpdateIsSentWhileOpen ==
    /\ []((thUnserved /\ ~thProcessClosed) => Cardinality(thTimers) = 1)
    /\ (thUnserved /\ ~thProcessClosed) ~> (~thUnserved \/ thProcessClosed)

\* After the close nothing is sent any more
C29_NoEmissionAfterClose ==
    [][thProcessClosed => thLog' = thLog \/ thLog'[Len(thLog')].kind = "start"]_vars

\* An update was put off, the process closed, and nothing will send it
C29_LostAtClose ==
    /\ thListener
    /\ thUnserved
    /\ thProcessClosed
    /\ thTimers = {}

-----------------------------------------------------------------------------
(* C30 *)

\* How many tool_execution_start lines the log holds up to entry i
ToolStartsUpTo(i) == Cardinality({j \in 1..i : thLog[j].kind = "start"})

\* The tool start at entry i was counted and recorded, and sent at once
CountedAndSentAtOnce(i) ==
    /\ thLog[i].toolCount = ToolStartsUpTo(i)
    /\ thLog[i].currentTool = ToolExecutionStart.toolName
    /\ i < Len(thLog)
    /\ thLog[i + 1] = [thLog[i] EXCEPT !.kind = "emit", !.forced = TRUE]

\* C30: every tool_execution_start event processed while a listener is
\* attached increments the tool count by one, records the current tool and
\* causes a progress emission immediately, whatever the time since the last
\* emission and whether or not a delayed emission is pending.
C30_ToolStartEmitsAtOnce ==
    thListener =>
        \A i \in 1..Len(thLog) : thLog[i].kind = "start" => CountedAndSentAtOnce(i)

\* The same for the tool starts handled before the close
C30_ToolStartEmitsAtOnceWhileOpen ==
    thListener =>
        \A i \in 1..Len(thLog) :
            (thLog[i].kind = "start" /\ ~thLog[i].closed) => CountedAndSentAtOnce(i)

\* Every tool start is counted and recorded, with or without a listener,
\* before and at the close
C30_ToolStartCounted ==
    /\ thToolCount = ToolStartsUpTo(Len(thLog))
    /\ \A i \in 1..Len(thLog) :
          thLog[i].kind = "start" =>
              /\ thLog[i].toolCount = ToolStartsUpTo(i)
              /\ thLog[i].currentTool = ToolExecutionStart.toolName

\* A tool start was sent at once although the previous emission was less than
\* 50 ms ago and a delayed emission was pending
C30_ForcedInsideWindow ==
    \E i \in 2..Len(thLog) :
        /\ thLog[i].kind = "start"
        /\ thLog[i - 1].kind = "emit"
        /\ thLog[i].at - thLog[i - 1].at < UPDATE_THROTTLE_MS
        /\ CountedAndSentAtOnce(i)

\* The last line of the worker, left without a newline, was a tool start
C30_ToolStartAtClose ==
    /\ thListener
    /\ thProcessClosed
    /\ Len(thLog) > 0
    /\ thLog[Len(thLog)].kind = "start"
    /\ thLog[Len(thLog)].closed

-----------------------------------------------------------------------------
(* C31 *)

\* The two progress lines buildChainInstructions can append to a task
CreateDirective == "Create and maintain: " \o ChainDir \o "/progress.md"

UpdateDirective == "Read and update: " \o ChainDir \o "/progress.md"

ToldToCreate(sp) == Includes(sp.text, CreateDirective)

ToldToUpdate(sp) == Includes(sp.text, UpdateDirective)

\* The resolved behaviour of the task a spawn record stands for has progress on
ProgressEnabled(sp) ==
    IF sp.task = 0
    THEN resolveStepBehavior(AgentConfig(sp.agent), NoOverrides).progress
    ELSE resolveParallelBehaviors(chain[sp.step].parallel, sp.step)[sp.task].progress

\* Some task of chain step s has progress enabled
StepNeedsProgress(s) ==
    IF isParallelStep(chain[s])
    THEN \E j \in 1..Len(chain[s].parallel) :
            resolveParallelBehaviors(chain[s].parallel, s)[j].progress
    ELSE resolveStepBehavior(AgentConfig(chain[s].agent), NoOverrides).progress

\* Step s is the first step of the chain that needs the progress file
FirstProgressStep(s) ==
    StepNeedsProgress(s) /\ \A k \in 1..(s - 1) : ~StepNeedsProgress(k)

\* C31: over one chain run at most one task is told to create the progress
\* file: the first sequential step with progress enabled, and only when no
\* earlier parallel group pre-created the file; every other task with
\* progress enabled is told to update it.
C31_OneCreateDirective ==
    /\ Cardinality({k \in 1..Len(spawned) : ToldToCreate(spawned[k])}) <= 1
    /\ \A k \in 1..Len(spawned) :
          LET sp == spawned[k]
          IN  /\ ToldToCreate(sp) <=>
                    (sp.task = 0 /\ ProgressEnabled(sp) /\ FirstProgressStep(sp.step))
              /\ ToldToUpdate(sp) <=> (ProgressEnabled(sp) /\ ~ToldToCreate(sp))

\* A step without progress, then the step told to create the file; or a step
\* told to create it, then one told to update it
C31_Witness ==
    /\ Len(chain) = 2
    /\ ~isParallelStep(chain[1]) /\ ~isParallelStep(chain[2])
    /\ chain[1].agent = "b" /\ chain[2].agent = "a"
    /\ Len(spawned) = 2
    /\ ~ToldToCreate(spawned[1]) /\ ~ToldToUpdate(spawned[1])
    /\ ToldToCreate(spawned[2])

\* A sequential step after a group that needed the file is told to update it
C31_UpdateAfterGroup ==
    /\ Len(chain) = 2
    /\ isParallelStep(chain[1]) /\ StepNeedsProgress(1)
    /\ ~isParallelStep(chain[2])
    /\ Len(spawned) = 3
    /\ ToldToUpdate(spawned[3])
    /\ \A k \in 1..3 : ~ToldToCreate(spawned[k])

-----------------------------------------------------------------------------
(* C32 *)

\* The spawn records of the tasks of step s
SpawnsOfStep(s) == {k \in 1..Len(spawned) : spawned[k].step = s}

\* C32: for a parallel group in which some task has progress enabled, the
\* engine writes the progress file exactly once and before any task of the
\* group is started if no earlier step created it, and not at all if an
\* earlier step did; no task of a group is told to create it.
C32_GroupProgressFile ==
    /\ Len(progressWrites) <= 1
    /\ \A w \in 1..Len(progressWrites) :
          LET s == progressWrites[w].step
          IN  /\ isParallelStep(chain[s])
              /\ FirstProgressStep(s)
              /\ \A k \in SpawnsOfStep(s) : k > progressWrites[w].spawnsBefore
    /\ \A s \in 1..Len(chain) :
          (isParallelStep(chain[s]) /\ SpawnsOfStep(s) # {})
          => /\ FirstProgressStep(s) <=>
                   \E w \in 1..Len(progressWrites) : progressWrites[w].step = s
             /\ \A k \in SpawnsOfStep(s) : ~ToldToCreate(spawned[k])

\* The engine wrote the file for a group whose two tasks both need it and
\* were started together; both are told to update it
C32_Witness ==
    /\ Len(progressWrites) = 1
    /\ progressWrites[1].step = 2
    /\ ~StepNeedsProgress(1)
    /\ Cardinality(SpawnsOfStep(2)) = 2
    /\ \A k \in SpawnsOfStep(2) : ProgressEnabled(spawned[k]) /\ ToldToUpdate(spawned[k])

\* A group that needs the file runs after a step that was told to create it:
\* the engine writes nothing
C32_NoWriteAfterCreate ==
    /\ Len(chain) = 2
    /\ Len(spawned) >= 1
    /\ ToldToCreate(spawned[1])
    /\ isParallelStep(chain[2]) /\ StepNeedsProgress(2)
    /\ SpawnsOfStep(2) # {}
    /\ progressWrites = <<>>

-----------------------------------------------------------------------------
(* C33: what a run retains of its messages and of stderr is bounded *)

\* The messages pushed so far, oldest first
PushedMessages == [k \in 1..rtPushed |-> k]

\* How many characters of stderr the run holds
StderrHeld == rtStderr.to - rtStderr.from

\* C33: the retained message list of a worker run never holds more than 200
\* messages and the retained stderr text never more than 200,000 characters,
\* and what is retained is the most recent part of what arrived.
C33_RetainedIsBounded ==
    /\ Len(rtMessages) <= MAX_STORED_MESSAGES
    /\ rtMessages = LastOf(PushedMessages, MAX_STORED_MESSAGES)
    /\ StderrHeld <= MAX_STDERR_CHARS
    /\ rtStderr.from = IF rtStderr.to > MAX_STDERR_CHARS
                       THEN rtStderr.to - MAX_STDERR_CHARS ELSE 0

\* C33, for the runSync of execution.ts alone, which has both ceilings
C33_ExecutionTsIsBounded ==
    rtRunner = "execution.ts" => C33_RetainedIsBounded

\* C33: the runSync of execution.ts has dropped its oldest message and the
\* oldest characters of stderr
C33_OldestDropped ==
    /\ rtRunner = "execution.ts"
    /\ rtPushed > MAX_STORED_MESSAGES
    /\ rtMessages[1] = rtPushed - MAX_STORED_MESSAGES + 1
    /\ rtStderr.to > MAX_STDERR_CHARS
    /\ rtStderr.from > 0

\* C33: the other runSync holds more than either ceiling allows
C33_UncappedGrows ==
    /\ rtRunner = "unnamed/part_001"
    /\ Len(rtMessages) > MAX_STORED_MESSAGES
    /\ StderrHeld > MAX_STDERR_CHARS

-----------------------------------------------------------------------------
(* C34: the result is frozen once runSync has returned *)

\* The result, the progress record and the onUpdate calls as they are now
SettleNow ==
    [state |-> seState, exitCode |-> seExitCode, status |-> seStatus,
     emits |-> seThrottle.emits]

\* C34: once runSync has returned a TaskResult, no later event of the child
\* process changes that TaskResult or its ProgressRecord or calls onUpdate, in
\* every order of the child's error, data and close events.
C34_FrozenAfterReturn == seReturned => seFrozen = <<SettleNow>>

\* C34, where the close handler resolved the promise: nothing changes after
\* the return
C34_FrozenAfterClose ==
    seReturned /\ seResolved = "close" => seFrozen = <<SettleNow>>

\* C34: no onUpdate call is made once the close handler has run
C34_NoEmissionOnceClosed ==
    [][seProcessClosed => seThrottle'.emits = seThrottle.emits]_vars

\* C34: runSync returned after a close, and an error event came later
C34_ErrorAfterClose ==
    /\ seReturned /\ seResolved = "close" /\ seErrored
    /\ seThrottle.emits > 0

\* C34: the error event resolved the promise, runSync returned exit code 1,
\* and a later stdout line has changed the result and called onUpdate
C34_ChangedAfterErrorReturn ==
    /\ seReturned /\ seResolved = "error" /\ ~seProcessClosed
    /\ seFrozen # <<>>
    /\ seFrozen[1].exitCode = 1
    /\ seState.toolCount > seFrozen[1].state.toolCount
    /\ seThrottle.emits > seFrozen[1].emits

-----------------------------------------------------------------------------
(* C35: cancellation of a chain run *)

\* No worker was spawned while the signal was aborted
NoSpawnAfterCancel == \A k \in 1..Len(ccSpawned) : ~ccSpawned[k].afterAbort

\* No worker that the signal ended counts as a step that succeeded
KilledIsNotSuccess ==
    \A k \in 1..Len(ccResults) : ccResults[k].killedBySignal => ccResults[k].exitCode # 0

\* C35: once the cancellation signal has been raised during a chain run, no
\* worker is spawned for a step after the one in flight, and a task whose
\* worker the signal killed is never treated as a successful step.
C35_CancelStopsChain == NoSpawnAfterCancel /\ KilledIsNotSuccess

\* C35: every worker in flight at the abort, and every worker spawned after it,
\* has been sent SIGTERM
C35_WorkersAreSignalled == ccAborted /\ ccWorker.alive => ccWorker.signalled

\* C35: a worker that exits with a non-zero code ends the chain: no later
\* step is spawned
C35_FailedStepEndsChain ==
    \A k \in 1..Len(ccResults) :
        ccResults[k].exitCode # 0 =>
            /\ ccPhase = "failed"
            /\ k = Len(ccResults)
            /\ Len(ccSpawned) = k

\* C35: the worker of the first step was killed by the signal, and the chain
\* ran every later step and completed
C35_CompletedAfterKill ==
    /\ ccPhase = "completed"
    /\ ccResults[1].killedBySignal
    /\ Len(ccSpawned) = MaxCancelSteps
    /\ \A k \in 2..MaxCancelSteps : ccSpawned[k].afterAbort

-----------------------------------------------------------------------------
(* C36: where the skipped placeholder can appear *)

IsSkipped(r) == r.exitCode = -1

\* Step s is a fail-fast group one of whose tasks returned a real failure
FailFastGroupFailed(s) ==
    /\ isParallelStep(chain[s])
    /\ chain[s].failFast
    /\ \E y \in returned : y.step = s /\ RealFailure(y.r)

\* C36: a skipped result (exitCode -1) appears only in a parallel group run
\* with failFast in which some task returned a real non-zero exit code, and a
\* chain whose results contain a skipped task is never reported as completed.
C36_SkippedOnlyAfterFailure ==
    /\ \A x \in returned : IsSkipped(x.r) => FailFastGroupFailed(x.step)
    /\ \A k \in 1..Len(results) :
          IsSkipped(results[k]) => \E m \in 1..Len(results) : RealFailure(results[m])
    /\ ret.kind = "returned" /\ (\E k \in 1..Len(ret.results) : IsSkipped(ret.results[k]))
          => /\ ret.isError
             /\ ret.text[1] # <<"completed">>

\* C36: a chain has returned with a skipped task among its results
C36_Witness ==
    /\ ret.kind = "returned"
    /\ ret.isError
    /\ \E k \in 1..Len(ret.results) : IsSkipped(ret.results[k])
    /\ \E k \in 1..Len(ret.results) : RealFailure(ret.results[k])

-----------------------------------------------------------------------------
(* C37: the index of a leaf task is its place in the flattened chain *)

\* The 0-based place of task j of step s (j = 0: a sequential step) in the
\* flattened chain
FlatPosition(s, j) == LeavesBefore(chain, s) + (IF j = 0 THEN 0 ELSE j - 1)

\* The leaf at the 1-based place p of the results
LeafAt(p) ==
    CHOOSE x \in returned : FlatPosition(x.step, x.task) + 1 = p

-----------------------------------------------------------------------------
(* C38: the output paths of parallel tasks *)

\* The resolved tasks: <<step, task>>
ResolvedTasks ==
    {x \in (1..Len(ppBehaviors)) \X (1..MaxPathTasks) : x[2] <= Len(ppChain[x[1]])}

\* The output of task j of step s is a default or a relative override
IsNamespacedSource(s, j) ==
    LET t == ppChain[s][j]
    IN  IF t.output.given
        THEN t.output.value # FalseOutput /\ ~isAbsolute(t.output.value)
        ELSE AgentConfig(t.agent).hasOutput

\* The file name that task j of step s writes under its directory
SourceName(s, j) ==
    LET t == ppChain[s][j]
    IN  IF t.output.given THEN t.output.value ELSE AgentConfig(t.agent).output

\* C38: for parallel tasks an output path from the agent default or from a
\* relative override resolves under parallel-{stepIndex}/{taskIndex}-{agent}/,
\* inside the directory created for the task, so two distinct tasks of the same
\* or of different groups never get the same output path; an absolute override
\* is passed through unchanged and an explicit false disables output.
C38_OutputsAreNamespaced ==
    /\ \A x \in ResolvedTasks :
          LET s == x[1]
              j == x[2]
              t == ppChain[s][j]
              out == ppBehaviors[s][j]
          IN  /\ IsNamespacedSource(s, j) =>
                    /\ out = ParallelSubdir(s, j, t.agent) \o "/" \o SourceName(s, j)
                    /\ \E d \in ppDirs :
                          resolveChainPath(out, ChainDir) = d \o "/" \o SourceName(s, j)
              /\ t.output.given /\ isAbsolute(t.output.value) => out = t.output.value
              /\ t.output.given /\ t.output.value = FalseOutput => out = FalseOutput
    /\ \A x, y \in ResolvedTasks :
          x # y /\ IsNamespacedSource(x[1], x[2]) /\ IsNamespacedSource(y[1], y[2])
             => ppBehaviors[x[1]][x[2]] # ppBehaviors[y[1]][y[2]]

\* C38: both groups are resolved; the first tasks of both are agent a writing
\* a.md, one by default and one by a relative override; the second task of the
\* first group gives an absolute path and that of the second group false
C38_Witness ==
    /\ Len(ppBehaviors) = 2
    /\ Len(ppChain[1]) = 2 /\ Len(ppChain[2]) = 2
    /\ ppChain[1][1] = [agent |-> "a", output |-> NoOutputOverride]
    /\ ppChain[2][1] = [agent |-> "a", output |-> [given |-> TRUE, value |-> "a.md"]]
    /\ ppBehaviors[1][1] = "parallel-0/0-a/a.md"
    /\ ppBehaviors[2][1] = "parallel-1/0-a/a.md"
    /\ ppBehaviors[1][2] = "/abs/out.md"
    /\ ppChain[2][2].output = [given |-> TRUE, value |-> FalseOutput]
    /\ ppBehaviors[2][2] = FalseOutput

-----------------------------------------------------------------------------
(* C39: what the writer passes to the sink *)

\* The accepted lines, each with its newline
AcceptedWithNewline == [k \in 1..Len(jwAccepted) |-> WithNewline(jwAccepted[k])]

\* C39: every non-blank line passed to writeLine before close() is written to
\* the sink exactly once, in call order and with one trailing newline, also
\* while backpressure is in effect; after close() nothing is written to the
\* sink and the source is not paused again.
C39_LinesReachSinkOnce ==
    /\ [](jwStream # "noop" => jwSinkLog = AcceptedWithNewline)
    /\ [][jwClosed => jwSinkLog' = jwSinkLog /\ jwPauses' = jwPauses]_vars

\* C39: a line was written while the source was paused by the writer, and a
\* writeLine call came after close
C39_Witness ==
    /\ jwClosed
    /\ Len(jwSinkLog) = 2
    /\ jwSinkLog[2] = "line2\n"
    /\ jwPauses = 1
    /\ jwResumes = 0
    /\ jwDrains = 0
    /\ jwCalls = 3
    /\ jwCloseCalls = 1

-----------------------------------------------------------------------------
(* C40: no onUpdate call after the close event *)

\* C40: after the close event of the child has been handled onUpdate is never
\* called again for the task: the delayed emission that was pending is
\* cancelled, and later update requests, those of the final fragment included,
\* emit nothing.
C40_SilentAfterClose ==
    /\ [](/\ \A i \in 1..Len(thLog) : thLog[i].kind = "emit" => ~thLog[i].closed
          /\ thProcessClosed => thTimers = {} /\ thPendingTimer = NoTimer)
    /\ [][thProcessClosed' => Emissions' = Emissions]_vars

\* C40: the close handler cancelled a pending delayed emission and handled a
\* tool start as the final fragment; time has passed since
C40_Witness ==
    /\ thListener
    /\ thProcessClosed
    /\ thUpdatePending
    /\ thNextTimerId > 1
    /\ thTimers = {}
    /\ Len(thLog) > 0
    /\ thLog[Len(thLog)].kind = "start"
    /\ thLog[Len(thLog)].closed
    /\ thNow > thLog[Len(thLog)].at

====
